---- MODULE Spec2Model ----
(***************************************************************************)
(* Decision / planning / execution core of the animal simulation.         *)
(*                                                                         *)
(*   ClientPlanningManager  (lib/client-planning-manager.ts)  plan store   *)
(*   AnimalAI               (lib/animal-ai.ts)         oracle adapter      *)
(*   POST /api/animal/decision (route.ts)              plan normalisation  *)
(*   HealthMonitor          (lib/health-monitor.ts)    tick + pipeline     *)
(*                                                                         *)
(* The runtime is a single-threaded event loop.  A timer callback, an      *)
(* oracle (fetch) response and a call made by the UI are macrotasks; the   *)
(* continuation after `await actionSystem.executeAction(...)` is a         *)
(* microtask, because no action handler of MXPActionSystem awaits          *)
(* anything that leaves the event loop.  Macrotasks therefore run only     *)
(* when no pipeline has a pending microtask (LoopIdle).                    *)
(*                                                                         *)
(* Time is Date.now() in milliseconds.  Timestamps that are `undefined`    *)
(* in the program are 0 here; Date.now() itself is always positive.        *)
(* Plan confidence is kept in ten-thousandths (0.7 is 7000).               *)
(***************************************************************************)
EXTENDS Integers, Sequences, FiniteSets, TLC

\* ------------------------------------------------------------------ bounds
MaxSteps  == 3        \* longest plan the oracle returns
MaxOffset == 2        \* largest turnOffset the oracle puts on a step
MaxCalls  == 2        \* oracle calls issued in one run
MaxTimers == 1        \* decision callbacks pending for one agent
MaxAdvances == 2      \* times the clock moves on
ClockStep == 500      \* milliseconds the clock moves on by
MaxStores == 6        \* storePlan calls a client of the plan store makes
MaxTicks  == 2        \* milliseconds a client waits around the plan age limit
MaxEvents == 2        \* change events queued by the agent state store
TickMinutes == 60     \* minutes the clock of the game world moves on by
MaxClockSteps == 1    \* times the clock of the game world moves on
MaxChecks == 2        \* performHealthChecks runs over the game world
MaxExecs  == 2        \* executeAnimalAction runs over the game world
MaxRegens == 1        \* regenerateResources runs
MaxDirect == 1        \* direct calls of the game manager and building system
MaxUpdates == 3       \* update calls a client of the agent store makes
MaxDecisions == 2     \* answers of the oracle a run takes
MaxStepNames == 2     \* steps of a plan whose action names are followed

\* --------------------------------------------------------------- constants
MIN_DELAY_BETWEEN_STEPS == 1000
LOW_CONFIDENCE          == 3000
MAX_PLAN_AGE            == 600000
HISTORY_LIMIT           == 5
DEFAULT_CONFIDENCE      == 7000
FALLBACK_CONFIDENCE     == 6000
MIN_CONFIDENCE          == 1000
MAX_CONFIDENCE          == 10000
URGENT_THIRST           == 70
URGENT_HUNGER           == 70
LOW_ENERGY              == 30
HARVEST_RADIUS          == 4
\* MXPActionSystem.config
move_energyCost      == 5
eat_hungerReduction  == 20
eat_energyGain       == 10
drink_thirstReduction == 25
drink_healthGain     == 5
sleep_energyGain     == 40
sleep_healthGain     == 15
work_energyCost      == 25
work_happinessGain   == 10
play_happinessGain   == 20
play_energyCost      == 15
\* AnimalLifecycle.degradeStats: degradationRates, in tenths per minute
degradationRates ==
    [hunger |-> 15, thirst |-> 20, energy |-> 8, happiness |-> 5, health |-> 1]
\* types/weights.ts RESOURCE_WEIGHTS, in tenths of a weight unit
RESOURCE_WEIGHTS ==
    [wood |-> 3, stone |-> 4, food |-> 2, water |-> 1, berries |-> 2]

Agents == {"a1"}

\* Ids the agent state store is asked about: the agent and one more animal.
StoreIds == Agents \cup {"a2"}

\* Keys under which a callback is registered with the agent state store.
SubscriberKeys == {"game-manager"}

\* The parts of an animal record the update methods write.
Fields == {"stats", "position", "currentAction", "inventory", "age"}

\* The update methods, the part of the record each writes and the type of
\* the change event each queues.
UpdateOps == {"updateStats", "updatePosition", "updateFromActionResult",
              "updateInventory", "updateAge"}

FieldOf(op) ==
    CASE op = "updateStats"            -> "stats"
      [] op = "updatePosition"         -> "position"
      [] op = "updateFromActionResult" -> "currentAction"
      [] op = "updateInventory"        -> "inventory"
      [] op = "updateAge"              -> "age"

EventType(op) ==
    CASE op = "updateStats"            -> "stats"
      [] op = "updatePosition"         -> "position"
      [] op = "updateFromActionResult" -> "action"
      [] op = "updateInventory"        -> "inventory"
      [] op = "updateAge"              -> "full"

\* lastCall before any mutation call was made, lastFlush before any pass.
NoCall == [op |-> "none", id |-> "", present |-> FALSE, returned |-> "void",
           notified |-> 0, queued |-> 0, wrote |-> FALSE]
NoFlush == [batch |-> <<>>, calls |-> <<>>, queued |-> 0]

\* Stat values an animal can carry when its fallback plan is built.
AnimalInputs == [thirst : {70, 71}, hunger : {70, 71}, energy : {29, 30}]

\* What the language model may put in a step's turnOffset (0 also stands for
\* a missing field: both are falsy) and in the plan's confidence.
RawOffsets     == 0..MaxOffset
RawConfidences == {0, 3100, 15000}

Max(x, y) == IF x >= y THEN x ELSE y
Min(x, y) == IF x <= y THEN x ELSE y

RECURSIVE SeqsUpTo(_, _)
SeqsUpTo(S, n) ==
    IF n = 0 THEN {<<>>}
    ELSE LET shorter == SeqsUpTo(S, n - 1)
         IN  shorter \cup {Append(s, x) : s \in {t \in shorter : Len(t) = n - 1}, x \in S}

\* The plans the language model may answer with: raw turnOffsets per step.
RawPlans == [offsets : SeqsUpTo(RawOffsets, MaxSteps), confidence : RawConfidences]

\* ---------------------------------------------- game world: what is fixed
\* Stats are whole points, ages hundredths of a lifespan, dna traits
\* percent, weights tenths of a unit.  The inputs below are chosen so that
\* the program's quotients are whole numbers in these units.

StatNames == {"health", "hunger", "energy", "happiness", "thirst"}

MS_PER_MINUTE == 60000
TickMs == TickMinutes * MS_PER_MINUTE

\* AnimalAction as the decision route validates it.
validActions == {"moving", "eating", "drinking", "sleeping", "playing",
                 "exploring", "socializing", "working", "mating",
                 "harvesting", "building", "idle"}

\* An action name the vocabulary does not hold.
UnknownAction == "flying"

\* dna of the two animals and the lifespan createAnimal gave them.
Dna(id) ==
    IF id = "a1"
    THEN [strength |-> 100, intelligence |-> 100, playful |-> 100,
          social |-> 100, curiosity |-> 100, resilience |-> 0, size |-> 1]
    ELSE [strength |-> 50, intelligence |-> 50, playful |-> 100,
          social |-> 100, curiosity |-> 100, resilience |-> 0, size |-> 1]

Lifespan(id) == TickMs

\* The resources of the world: a berry bush and a water hole, which
\* regenerate, and a stone source, which does not, all at x = 0.
ResourceIds == {"berries1", "stone1", "water1"}

ResourceType(r) ==
    IF r = "berries1" THEN "berries" ELSE IF r = "water1" THEN "water" ELSE "stone"

ResourceQuality(type) == IF type = "berries" THEN 50 ELSE 100

RegeneratesOverTime(r) == ResourceType(r) \in {"berries", "water"}

ResourcePosition(r) == 0

\* Quantities the world holds once harvesting has gone on for a while.
InitialQuantity(r) == IF r = "berries1" THEN 2 ELSE IF r = "water1" THEN 1 ELSE 5

\* Where an animal can stand: inside and outside the harvest radius.
Positions == {HARVEST_RADIUS - 1, HARVEST_RADIUS + 1}

\* Items are kept per name (the type of the resource they came from).
ItemNames == {"berries", "water", "stone", "wood"}

\* harvestResource, executeHarvest: berries become an item of type food.
ItemType(name) == IF name = "berries" THEN "food" ELSE name

\* generateInitialInventory: max(5, floor(20 * strength / 100 * size)).
InitialCapacity(id) ==
    10 * Max(5, (20 * Dna(id).strength * Dna(id).size) \div 100)

EmptyInventory(capacity) ==
    [items |-> [n \in ItemNames |-> 0], maxCapacity |-> capacity,
     currentWeight |-> 0]

\* References to Inventory objects: the one createAnimal made for an animal,
\* and the copy updateInventory makes for it.
InventoryOf(id) == IF id = "a1" THEN 1 ELSE 2
CopiedInventoryOf(id) == InventoryOf(id) + 2
InventoryRefs == 1..4

\* The stats addAnimal is handed.
InitialStats ==
    [health |-> 30, hunger |-> 40, energy |-> 55, happiness |-> 60,
     thirst |-> 30]

\* The record addAnimal is handed for id at time t.
NewAnimal(id, t) ==
    [id |-> id, stats |-> InitialStats,
     position |-> IF id = "a1" THEN HARVEST_RADIUS + 1 ELSE HARVEST_RADIUS - 1,
     inventory |-> InventoryOf(id), currentAction |-> "idle",
     age |-> 0, isAlive |-> TRUE, birthTime |-> t, lastHealthCheck |-> t]

\* Partial<AnimalStats>: a function on some of the stat names.
NoChanges == [s \in {} |-> 0]
Merge(stats, changes) ==
    [s \in StatNames |-> IF s \in DOMAIN changes THEN changes[s] ELSE stats[s]]

\* What a plan step of the oracle may carry in its parameters.  "null"
\* stands for a JSON null, "absent" for a missing key.
ParamValues == {1, -2}
NoParams ==
    [comfort |-> 1, safety |-> 1, toyQuality |-> 1, difficulty |-> 1,
     playmates |-> "absent", resourceId |-> "absent", target |-> 0,
     partner |-> "absent"]

StepInputs ==
       { [action |-> a, params |-> NoParams] :
            a \in {"idle", "eating", "drinking", "socializing", "mating",
                   "building", UnknownAction} }
  \cup { [action |-> "mating", params |-> [NoParams EXCEPT !.partner = "a2"]] }
  \cup { [action |-> a, params |-> [NoParams EXCEPT !.target = HARVEST_RADIUS - 1]] :
            a \in {"moving", "exploring"} }
  \cup { [action |-> "sleeping",
          params |-> [NoParams EXCEPT !.comfort = c, !.safety = s]] :
            c \in ParamValues, s \in ParamValues }
  \cup { [action |-> "playing",
          params |-> [NoParams EXCEPT !.toyQuality = q, !.playmates = m]] :
            q \in ParamValues, m \in {"absent", "some", "null"} }
  \cup { [action |-> "working", params |-> [NoParams EXCEPT !.difficulty = d]] :
            d \in ParamValues }
  \cup { [action |-> "harvesting", params |-> [NoParams EXCEPT !.resourceId = r]] :
            r \in ResourceIds \cup {"absent"} }

\* lastResult before any executeAnimalAction has run.
NoResult == [n |-> 0, id |-> "", action |-> "none", params |-> NoParams,
             animal |-> <<>>, completed |-> "none"]

\* The steps the plans of an animal hold: those of the second animal are
\* idle and harvesting steps.
StepInputsOf(id) ==
    IF id = "a1" THEN StepInputs
    ELSE {i \in StepInputs : i.action \in {"idle", "harvesting"}}

\* The parsed responses of the oracle: the action it names and the action
\* names of the steps of its plan, <<>> when the response has no plan.
ResponseActions == {"sleeping", "idle", UnknownAction}
StepActions     == {"sleeping", UnknownAction}
Responses ==
    [action : ResponseActions, plan : SeqsUpTo(StepActions, MaxStepNames)]

\* No plan stored for an animal, and lastDecision before any answer.
NoActionPlan == [steps |-> <<>>, cursor |-> 0]
NoDecision ==
    [n |-> 0, id |-> "", response |-> [action |-> "idle", plan |-> <<>>],
     action |-> "none", fallback |-> FALSE]

VARIABLES
    now,              \* Date.now()
    animals,          \* ids held by the agent state store
    aiInstances,      \* HealthMonitor.aiInstances (ids with an AnimalAI)
    monitoring,       \* HealthMonitor.healthCheckInterval is set
    timers,           \* decision callbacks scheduled by setTimeout, per agent
    plans,            \* ClientPlanningManager.plans: <<>> or <<plan>>
    planningHistory,  \* ClientPlanningManager.planningHistory (plan ordinals)
    subscribers,      \* ids with a plan subscriber callback
    oracleCalls,      \* decideAction requests awaiting their response
    totalCalls,       \* oracle calls issued so far (bounds the run)
    executing,        \* executeAnimalAction invocations awaiting the handler
    catching,         \* executeAnimalAction is inside its catch block
    \* ---- observations of the run, written but never read by the program
    execCompletions,  \* completeCurrentStep calls of the running execution
    lastCompletions,  \* ... of the last executeAnimalAction that ended (-1: none)
    stepOpen,         \* a startStep of the stored plan has no completion yet
    lastDoneAt,       \* time of the last completion on the stored plan
    planSeq,          \* number of storePlan calls for the agent
    nCompleted,       \* completeCurrentStep calls on the stored plan
    lastOutcome,      \* how the last oracle call ended
    needsAnswer,      \* what the last needsNewPlan call of a client returned
    \* ---- AnimalStateManager (lib/animal-state-manager.ts)
    animalData,       \* per id: the fields written since setAnimal
    updateQueue,      \* AnimalStateManager.updateQueue
    flushTimers,      \* pending setTimeout(processUpdateQueue, 0) callbacks
    processingUpdates,\* AnimalStateManager.processingUpdates
    storeSubscribers, \* keys of AnimalStateManager.subscribers
    \* ---- observations of the store, written but never read by the program
    nQueued,          \* change events queued so far (their ordinals)
    deliveredEvents,  \* ordinals of the events handed to notifySubscribers
    lastCall,         \* the last mutation call of the store and what it did
    lastFlush,        \* the last processUpdateQueue pass that found events
    \* ---- the records of the store and the game world
    records,          \* AnimalStateManager.animals: per id <<>> or <<record>>
    inventories,      \* the Inventory objects the records refer to
    resources,        \* GameManager.worldState.resources: quantity per id
    pending,          \* per id: the animal arguments of the scheduled
                      \* handleAnimalDecision callbacks, oldest first
    budget,           \* calls made so far, per kind (bounds the run)
    \* ---- observations of the world, written but never read by the program
    lastResult,       \* the last executeAnimalAction and what it did
    lastUpdate,       \* the last update call of a client of the store
    \* ---- the decisions of the oracle as the client stores them
    actionPlans,      \* per id: the action names of the steps of the stored
                      \* plan and the cursor into them
    lastDecision,     \* the last response of the oracle and what the route
                      \* answered (an observation)
    storedSteps,      \* the steps of the plan decideAction stored last, in
                      \* the shape the route gave them
    \* ---- GameManager.worldState.animals and the events that feed it
    worldAnimals,     \* GameManager.worldState.animals, in list order
    syncQueue         \* the AnimalUpdate events queued by the store, with data

storeVars == <<animalData, updateQueue, flushTimers, processingUpdates,
               storeSubscribers, nQueued, deliveredEvents, lastCall, lastFlush>>

worldVars == <<records, inventories, resources, pending, budget, lastResult,
               lastUpdate>>

\* What the sections on the route and on the tick add to the state.
extraVars == <<storedSteps, worldAnimals, syncQueue>>

decisionVars == <<actionPlans, lastDecision, extraVars>>

vars == <<now, animals, aiInstances, monitoring, timers, plans, planningHistory,
          subscribers, oracleCalls, totalCalls, executing, catching,
          execCompletions, lastCompletions, stepOpen, lastDoneAt, planSeq,
          nCompleted, lastOutcome, needsAnswer, storeVars, worldVars,
          decisionVars>>

obsVars   == <<execCompletions, lastCompletions, stepOpen, lastDoneAt, planSeq,
               nCompleted, lastOutcome>>

\* Everything the decision pipeline holds besides the plan store.
pipelineVars == <<aiInstances, monitoring, timers, oracleCalls, totalCalls,
                  executing, catching, execCompletions, lastCompletions,
                  lastOutcome>>

\* ------------------------------------------------ plans as the code builds them
NewStep(id, turnOffset) ==
    [id |-> id, turnOffset |-> turnOffset, startedAt |-> 0, completedAt |-> 0]

\* route.ts: turnOffset: step.turnOffset || index  (a falsy value yields index)
NormalizeTurnOffset(raw, index) == IF raw = 0 THEN index ELSE raw

\* route.ts: confidence: parsedResponse.plan.confidence || 0.7
NormalizeConfidence(raw) == IF raw = 0 THEN DEFAULT_CONFIDENCE ELSE raw

\* route.ts: result.newPlan.  Step ids are step_<time>_<index>; the index
\* alone tells the steps of one plan apart.  createdAt is the time of the
\* response.
NewPlan(raw, t) ==
    [steps            |-> [i \in 1..Len(raw.offsets) |->
                             NewStep(i - 1, NormalizeTurnOffset(raw.offsets[i], i - 1))],
     createdAt        |-> t,
     lastUpdated      |-> t,
     currentStepIndex |-> 0,
     confidence       |-> NormalizeConfidence(raw.confidence),
     origin           |-> "oracle"]

\* createFallbackPlan without the exploration step for the calm animal.
UrgentActions_NoDefault(animal) ==
    LET u1 == IF animal.thirst > URGENT_THIRST THEN <<NewStep(0, 0)>> ELSE <<>>
        u2 == IF animal.hunger > URGENT_HUNGER
              THEN Append(u1, NewStep(Len(u1), Len(u1))) ELSE u1
    IN  IF animal.energy < LOW_ENERGY
        THEN Append(u2, NewStep(Len(u2), Len(u2))) ELSE u2

\* AnimalAI.createFallbackPlan: one urgent action per unmet need, in the
\* order thirst, hunger, energy; a single exploration step when none is urgent.
UrgentActions(animal) ==
    LET u1 == IF animal.thirst > URGENT_THIRST THEN <<NewStep(0, 0)>> ELSE <<>>
        u2 == IF animal.hunger > URGENT_HUNGER
              THEN Append(u1, NewStep(Len(u1), Len(u1))) ELSE u1
        u3 == IF animal.energy < LOW_ENERGY
              THEN Append(u2, NewStep(Len(u2), Len(u2))) ELSE u2
    IN  IF Len(u3) = 0 THEN <<NewStep(0, 0)>> ELSE u3

CreateFallbackPlan(animal, t) ==
    [steps            |-> UrgentActions(animal),
     createdAt        |-> t,
     lastUpdated      |-> t,
     currentStepIndex |-> 0,
     confidence       |-> FALLBACK_CONFIDENCE,
     origin           |-> "fallback"]

\* ------------------------------------------------------ ClientPlanningManager
\* A plan slot mp is <<>> (no entry in the map) or <<plan>>.
HasPlan(mp) == Len(mp) = 1

\* getCurrentStep without the turnOffset test.
GetCurrentStep_AnyOffset(mp) ==
    IF ~HasPlan(mp) THEN 0
    ELSE IF mp[1].currentStepIndex >= Len(mp[1].steps) THEN 0
    ELSE mp[1].currentStepIndex + 1

\* getCurrentStep: the position (1..Len) of the returned step, 0 for null.
GetCurrentStep(mp) ==
    IF ~HasPlan(mp) THEN 0
    ELSE IF mp[1].currentStepIndex >= Len(mp[1].steps) THEN 0
    ELSE IF mp[1].steps[mp[1].currentStepIndex + 1].turnOffset = 0
         THEN mp[1].currentStepIndex + 1
         ELSE 0

IsExecutingStep(mp) ==
    IF ~HasPlan(mp) THEN FALSE
    ELSE IF mp[1].currentStepIndex >= Len(mp[1].steps) THEN FALSE
    ELSE LET currentStep == mp[1].steps[mp[1].currentStepIndex + 1]
         IN  currentStep.startedAt # 0 /\ currentStep.completedAt = 0

\* canMakeNewDecision without the inter-step delay.
CanMakeNewDecision_NoDelay(mp, t) ==
    IF ~HasPlan(mp) THEN TRUE
    ELSE IF mp[1].currentStepIndex >= Len(mp[1].steps) THEN TRUE
    ELSE IF IsExecutingStep(mp) THEN FALSE
    ELSE TRUE

CanMakeNewDecision(mp, t) ==
    IF ~HasPlan(mp) THEN TRUE
    ELSE IF mp[1].currentStepIndex >= Len(mp[1].steps) THEN TRUE
    ELSE IF IsExecutingStep(mp) THEN FALSE
    ELSE LET lastCompletedIndex == mp[1].currentStepIndex - 1
         IN  IF lastCompletedIndex >= 0
                /\ mp[1].steps[lastCompletedIndex + 1].completedAt # 0
                /\ t - mp[1].steps[lastCompletedIndex + 1].completedAt
                       < MIN_DELAY_BETWEEN_STEPS
             THEN FALSE
             ELSE TRUE

\* needsNewPlan treating a confidence equal to the threshold as too low and
\* a plan of exactly the age limit as too old.
NeedsNewPlan_AtThreshold(mp, t) ==
    IF ~HasPlan(mp) THEN TRUE
    ELSE IF mp[1].currentStepIndex >= Len(mp[1].steps) THEN TRUE
    ELSE IF mp[1].confidence <= LOW_CONFIDENCE THEN TRUE
    ELSE IF t - mp[1].createdAt >= MAX_PLAN_AGE THEN TRUE
    ELSE FALSE

NeedsNewPlan(mp, t) ==
    IF ~HasPlan(mp) THEN TRUE
    ELSE IF mp[1].currentStepIndex >= Len(mp[1].steps) THEN TRUE
    ELSE IF mp[1].confidence < LOW_CONFIDENCE THEN TRUE
    ELSE IF t - mp[1].createdAt > MAX_PLAN_AGE THEN TRUE
    ELSE FALSE

\* startStep stamping every step from the one found on (filter, not find).
StartStep_StampRest(mp, stepId, t) ==
    IF ~HasPlan(mp) THEN mp
    ELSE <<[mp[1] EXCEPT !.steps = [i \in 1..Len(mp[1].steps) |->
                                     IF mp[1].steps[i].id >= stepId
                                     THEN [mp[1].steps[i] EXCEPT !.startedAt = t]
                                     ELSE mp[1].steps[i]]]>>

\* startStep: steps.find(s => s.id === stepId), stamped when found.
StartStep(mp, stepId, t) ==
    IF ~HasPlan(mp) THEN mp
    ELSE LET hits == {i \in 1..Len(mp[1].steps) : mp[1].steps[i].id = stepId}
         IN  IF hits = {} THEN mp
             ELSE LET first == CHOOSE i \in hits : \A j \in hits : i <= j
                  IN  <<[mp[1] EXCEPT !.steps[first].startedAt = t]>>

\* plan.confidence *= success ? 1.05 : 0.95, clamped to [0.1, 1.0]
AdjustConfidence(c, success) ==
    LET scaled == IF success THEN (c * 105) \div 100 ELSE (c * 95) \div 100
    IN  Max(MIN_CONFIDENCE, Min(MAX_CONFIDENCE, scaled))

\* completeCurrentStep advancing the cursor only past a successful step.
CompleteCurrentStep_KeepFailed(mp, success, t) ==
    IF ~HasPlan(mp) THEN mp
    ELSE LET plan    == mp[1]
             cursor  == plan.currentStepIndex
             present == cursor < Len(plan.steps)
             stamped == IF present
                        THEN [plan.steps EXCEPT ![cursor + 1].completedAt = t]
                        ELSE plan.steps
             next    == IF success THEN cursor + 1 ELSE cursor
         IN  <<[plan EXCEPT
                  !.steps = [i \in 1..Len(stamped) |->
                               IF i - 1 >= next
                               THEN [stamped[i] EXCEPT !.turnOffset = Max(0, @ - 1)]
                               ELSE stamped[i]],
                  !.confidence = IF present THEN AdjustConfidence(@, success) ELSE @,
                  !.currentStepIndex = next,
                  !.lastUpdated = t]>>

\* completeCurrentStep decrementing without the floor at zero.
CompleteCurrentStep_NoFloor(mp, success, t) ==
    IF ~HasPlan(mp) THEN mp
    ELSE LET plan    == mp[1]
             cursor  == plan.currentStepIndex
             present == cursor < Len(plan.steps)
             stamped == IF present
                        THEN [plan.steps EXCEPT ![cursor + 1].completedAt = t]
                        ELSE plan.steps
             next    == cursor + 1
         IN  <<[plan EXCEPT
                  !.steps = [i \in 1..Len(stamped) |->
                               IF i - 1 >= next
                               THEN [stamped[i] EXCEPT !.turnOffset = @ - 1]
                               ELSE stamped[i]],
                  !.confidence = IF present THEN AdjustConfidence(@, success) ELSE @,
                  !.currentStepIndex = next,
                  !.lastUpdated = t]>>

CompleteCurrentStep(mp, success, t) ==
    IF ~HasPlan(mp) THEN mp
    ELSE LET plan    == mp[1]
             cursor  == plan.currentStepIndex
             present == cursor < Len(plan.steps)
             stamped == IF present
                        THEN [plan.steps EXCEPT ![cursor + 1].completedAt = t]
                        ELSE plan.steps
             next    == cursor + 1
         IN  <<[plan EXCEPT
                  !.steps = [i \in 1..Len(stamped) |->
                               IF i - 1 >= next
                               THEN [stamped[i] EXCEPT !.turnOffset = Max(0, @ - 1)]
                               ELSE stamped[i]],
                  !.confidence = IF present THEN AdjustConfidence(@, success) ELSE @,
                  !.currentStepIndex = next,
                  !.lastUpdated = t]>>

\* storePlan pushes a copy of the plan and keeps the last five.  The ring is
\* kept as the ordinals of the plans it holds: the k-th plan passed to
\* storePlan for the agent is k.
PushHistory(h, planId) ==
    LET pushed == Append(h, planId)
    IN  IF Len(pushed) > HISTORY_LIMIT THEN Tail(pushed) ELSE pushed

\* ------------------------------------------------------------- HealthMonitor
\* handleAnimalDecision without the canMakeNewDecision gate.
Decision_NoGate(mp, t) ==
    IF GetCurrentStep(mp) # 0 THEN "step"
    ELSE IF NeedsNewPlan(mp, t) THEN "plan"
    ELSE "none"

\* handleAnimalDecision, lines 331-363: which branch the callback takes.
Decision(mp, t) ==
    IF ~CanMakeNewDecision(mp, t) THEN "wait"
    ELSE IF GetCurrentStep(mp) # 0 THEN "step"
    ELSE IF NeedsNewPlan(mp, t) THEN "plan"
    ELSE "none"

\* No pipeline has a continuation queued as a microtask.
LoopIdle == \A a \in Agents : executing[a] = 0 /\ ~catching[a]

\* A subscriber callback is foreign code: a notification may throw.
NotifyThrows(a) == IF a \in subscribers THEN BOOLEAN ELSE {FALSE}

Init ==
    /\ now = 1
    /\ animals = {}
    /\ aiInstances = {}
    /\ monitoring = FALSE
    /\ timers = [a \in Agents |-> 0]
    /\ plans = [a \in Agents |-> <<>>]
    /\ planningHistory = [a \in Agents |-> <<>>]
    /\ subscribers = {}
    /\ oracleCalls = [a \in Agents |-> 0]
    /\ totalCalls = 0
    /\ executing = [a \in Agents |-> 0]
    /\ catching = [a \in Agents |-> FALSE]
    /\ execCompletions = [a \in Agents |-> 0]
    /\ lastCompletions = [a \in Agents |-> -1]
    /\ stepOpen = [a \in Agents |-> FALSE]
    /\ lastDoneAt = [a \in Agents |-> 0]
    /\ planSeq = [a \in Agents |-> 0]
    /\ nCompleted = [a \in Agents |-> 0]
    /\ lastOutcome = [a \in Agents |-> "none"]
    /\ needsAnswer = [a \in Agents |-> "none"]
    /\ animalData = [id \in StoreIds |-> {}]
    /\ updateQueue = <<>>
    /\ flushTimers = 0
    /\ processingUpdates = FALSE
    /\ storeSubscribers = {}
    /\ nQueued = 0
    /\ deliveredEvents = {}
    /\ lastCall = NoCall
    /\ lastFlush = NoFlush
    /\ records = [id \in StoreIds |-> <<>>]
    /\ inventories = [ref \in InventoryRefs |-> EmptyInventory(0)]
    /\ resources = [r \in ResourceIds |-> InitialQuantity(r)]
    /\ pending = [id \in StoreIds |-> <<>>]
    /\ budget = [checks |-> 0, execs |-> 0, regens |-> 0, calls |-> 0,
                 updates |-> 0, decisions |-> 0]
    /\ lastResult = NoResult
    /\ lastUpdate = [op |-> "none", id |-> "", present |-> FALSE]
    /\ actionPlans = [id \in StoreIds |-> NoActionPlan]
    /\ lastDecision = NoDecision
    /\ storedSteps = <<>>
    /\ worldAnimals = <<>>
    /\ syncQueue = <<>>

\* addAnimal: store.setAnimal, a fresh AnimalAI, monitoring starts with the
\* first animal of the store.
AddAnimal(a) ==
    /\ LoopIdle
    /\ animals' = animals \cup {a}
    /\ aiInstances' = aiInstances \cup {a}
    /\ monitoring' = IF Cardinality(animals \cup {a}) = 1 THEN TRUE ELSE monitoring
    /\ UNCHANGED <<needsAnswer, storeVars, worldVars, decisionVars>>
    /\ UNCHANGED <<now, timers, plans, planningHistory, subscribers, oracleCalls,
                   totalCalls, executing, catching>>
    /\ UNCHANGED obsVars

\* removeAnimal: the plan of the animal and its pending callbacks stay.
RemoveAnimal(a) ==
    /\ LoopIdle
    /\ animals' = animals \ {a}
    /\ aiInstances' = aiInstances \ {a}
    /\ monitoring' = IF animals \ {a} = {} THEN FALSE ELSE monitoring
    /\ UNCHANGED <<needsAnswer, storeVars, worldVars, decisionVars>>
    /\ UNCHANGED <<now, timers, plans, planningHistory, subscribers, oracleCalls,
                   totalCalls, executing, catching>>
    /\ UNCHANGED obsVars

Subscribe(a) ==
    /\ LoopIdle
    /\ a \notin subscribers
    /\ subscribers' = subscribers \cup {a}
    /\ UNCHANGED <<needsAnswer, storeVars, worldVars, decisionVars>>
    /\ UNCHANGED <<now, animals, aiInstances, monitoring, timers, plans,
                   planningHistory, oracleCalls, totalCalls, executing, catching>>
    /\ UNCHANGED obsVars

Unsubscribe(a) ==
    /\ LoopIdle
    /\ a \in subscribers
    /\ subscribers' = subscribers \ {a}
    /\ UNCHANGED <<needsAnswer, storeVars, worldVars, decisionVars>>
    /\ UNCHANGED <<now, animals, aiInstances, monitoring, timers, plans,
                   planningHistory, oracleCalls, totalCalls, executing, catching>>
    /\ UNCHANGED obsVars

\* performHealthChecks: one setTimeout(handleAnimalDecision) per stored animal.
\* A timer fires no earlier than its delay; when it fires is left open.
PerformHealthChecks ==
    /\ LoopIdle
    /\ monitoring
    /\ \A a \in animals : timers[a] < MaxTimers
    /\ timers' = [a \in Agents |-> IF a \in animals THEN timers[a] + 1 ELSE timers[a]]
    /\ UNCHANGED <<needsAnswer, storeVars, worldVars, decisionVars>>
    /\ UNCHANGED <<now, animals, aiInstances, monitoring, plans, planningHistory,
                   subscribers, oracleCalls, totalCalls, executing, catching>>
    /\ UNCHANGED obsVars

\* executePlanStep on the slot mp (history h): startStep, then
\* executeAnimalAction up to its await.  A throwing subscriber aborts the
\* callback inside startStep, after the stamp and before executeAnimalAction
\* is entered.
ExecutePlanStep(a, mp, h) ==
    LET started == StartStep(mp, mp[1].steps[GetCurrentStep(mp)].id, now)
    IN  /\ plans' = [plans EXCEPT ![a] = started]
        /\ planningHistory' = [planningHistory EXCEPT ![a] = h]
        /\ stepOpen' = [stepOpen EXCEPT ![a] = TRUE]
        /\ \E thrown \in NotifyThrows(a) :
              IF thrown
              THEN UNCHANGED <<executing, execCompletions, lastCompletions>>
              ELSE /\ executing' = [executing EXCEPT ![a] = @ + 1]
                   /\ execCompletions' = [execCompletions EXCEPT ![a] = 0]
                   /\ UNCHANGED lastCompletions

\* createNewPlan up to the fetch of decideAction; without an AnimalAI it
\* returns at once.
CreateNewPlan(a) ==
    IF a \notin aiInstances
    THEN UNCHANGED <<oracleCalls, totalCalls>>
    ELSE /\ totalCalls < MaxCalls
         /\ oracleCalls' = [oracleCalls EXCEPT ![a] = @ + 1]
         /\ totalCalls' = totalCalls + 1

\* The setTimeout callback of performHealthChecks.
HandleAnimalDecision(a) ==
    /\ LoopIdle
    /\ timers[a] > 0
    /\ timers' = [timers EXCEPT ![a] = @ - 1]
    /\ UNCHANGED <<needsAnswer, storeVars, worldVars, decisionVars>>
    /\ UNCHANGED <<now, animals, aiInstances, monitoring, subscribers, catching,
                   lastDoneAt, planSeq, nCompleted, lastOutcome>>
    /\ LET d == Decision(plans[a], now)
       IN  CASE d = "step" ->
                  /\ ExecutePlanStep(a, plans[a], planningHistory[a])
                  /\ UNCHANGED <<oracleCalls, totalCalls>>
             [] d = "plan" ->
                  /\ CreateNewPlan(a)
                  /\ UNCHANGED <<plans, planningHistory, executing,
                                 execCompletions, lastCompletions, stepOpen>>
             [] OTHER ->
                  UNCHANGED <<plans, planningHistory, oracleCalls, totalCalls,
                              executing, execCompletions, lastCompletions, stepOpen>>

\* n consecutive storePlan calls, the first one storing plan number first.
RECURSIVE PushAll(_, _, _)
PushAll(h, first, n) ==
    IF n = 0 THEN h ELSE PushAll(PushHistory(h, first), first + 1, n - 1)

\* decideAction from the response on: the plans it passes to storePlan, in
\* order.  A storePlan that throws inside the try block (its subscriber
\* threw) lands in the catch block, which stores a fallback plan.
StoredPlans(outcome, raw, animal, thrown, t) ==
    LET fallbackPlan == CreateFallbackPlan(animal, t)
    IN  CASE outcome = "plan"   -> IF thrown THEN <<NewPlan(raw, t), fallbackPlan>>
                                             ELSE <<NewPlan(raw, t)>>
          [] outcome = "noplan" -> IF thrown THEN <<fallbackPlan, fallbackPlan>>
                                             ELSE <<fallbackPlan>>
          [] OTHER              -> <<fallbackPlan>>

OracleOutcomes == {"plan", "noplan", "notok", "throw"}

\* The response of the oracle arrives: decideAction stores a plan,
\* createNewPlan returns and handleAnimalDecision runs the first step.
OracleReturn(a) ==
    /\ LoopIdle
    /\ oracleCalls[a] > 0
    /\ oracleCalls' = [oracleCalls EXCEPT ![a] = @ - 1]
    /\ \E outcome \in OracleOutcomes :
       \E thrown \in (IF outcome \in {"plan", "noplan"} THEN NotifyThrows(a) ELSE {FALSE}) :
       \E raw \in (IF outcome = "plan" /\ ~thrown THEN RawPlans
                   ELSE {[offsets |-> <<>>, confidence |-> 0]}) :
       \E animal \in (IF outcome = "plan" /\ ~thrown
                      THEN {[thirst |-> 70, hunger |-> 70, energy |-> 30]}
                      ELSE AnimalInputs) :
          LET stored == StoredPlans(outcome, raw, animal, thrown, now)
              mp     == <<stored[Len(stored)]>>
              h      == PushAll(planningHistory[a], planSeq[a] + 1, Len(stored))
          IN  /\ lastOutcome' = [lastOutcome EXCEPT ![a] = outcome]
              /\ planSeq' = [planSeq EXCEPT ![a] = @ + Len(stored)]
              /\ nCompleted' = [nCompleted EXCEPT ![a] = 0]
              /\ lastDoneAt' = [lastDoneAt EXCEPT ![a] = 0]
              /\ IF GetCurrentStep(mp) # 0
                 THEN ExecutePlanStep(a, mp, h)
                 ELSE /\ plans' = [plans EXCEPT ![a] = mp]
                      /\ planningHistory' = [planningHistory EXCEPT ![a] = h]
                      /\ stepOpen' = [stepOpen EXCEPT ![a] = FALSE]
                      /\ UNCHANGED <<executing, execCompletions, lastCompletions>>
    /\ UNCHANGED <<needsAnswer, storeVars, worldVars, decisionVars>>
    /\ UNCHANGED <<now, animals, aiInstances, monitoring, timers, subscribers,
                   totalCalls, catching>>

\* One call of completeCurrentStep(a, success) and what it lets observe.
Complete(a, success) ==
    LET done == CompleteCurrentStep(plans[a], success, now)
    IN  /\ plans' = [plans EXCEPT ![a] = done]
        /\ UNCHANGED planningHistory
        /\ stepOpen' = [stepOpen EXCEPT ![a] = FALSE]
        /\ lastDoneAt' = [lastDoneAt EXCEPT ![a] = now]
        /\ nCompleted' = [nCompleted EXCEPT ![a] = @ + 1]
        /\ execCompletions' = [execCompletions EXCEPT ![a] = @ + 1]

\* executeAnimalAction after its await: the handler's result is success or
\* failure and line 540 completes the step, or a statement of the try block
\* throws before line 540.  A subscriber that throws inside
\* completeCurrentStep also leads to the catch block.
ActionResolved(a) ==
    /\ executing[a] > 0
    /\ executing' = [executing EXCEPT ![a] = @ - 1]
    /\ \E result \in {"success", "failure", "throw"} :
          IF result = "throw"
          THEN /\ catching' = [catching EXCEPT ![a] = TRUE]
               /\ UNCHANGED <<plans, planningHistory, stepOpen, lastDoneAt,
                              nCompleted, execCompletions, lastCompletions>>
          ELSE /\ Complete(a, result = "success")
               /\ \E thrown \in NotifyThrows(a) :
                     IF thrown
                     THEN /\ catching' = [catching EXCEPT ![a] = TRUE]
                          /\ UNCHANGED lastCompletions
                     ELSE /\ lastCompletions' =
                                [lastCompletions EXCEPT ![a] = execCompletions[a] + 1]
                          /\ UNCHANGED catching
    /\ UNCHANGED <<needsAnswer, storeVars, worldVars, decisionVars>>
    /\ UNCHANGED <<now, animals, aiInstances, monitoring, timers, subscribers,
                   oracleCalls, totalCalls, planSeq, lastOutcome>>

\* The catch block of executeAnimalAction, line 548.
CatchComplete(a) ==
    /\ catching[a]
    /\ catching' = [catching EXCEPT ![a] = FALSE]
    /\ Complete(a, FALSE)
    /\ lastCompletions' = [lastCompletions EXCEPT ![a] = execCompletions[a] + 1]
    /\ UNCHANGED <<needsAnswer, storeVars, worldVars, decisionVars>>
    /\ UNCHANGED <<now, animals, aiInstances, monitoring, timers, subscribers,
                   oracleCalls, totalCalls, executing, planSeq, lastOutcome>>

\* Date.now() moves on.
AdvanceClock ==
    /\ now + ClockStep <= 1 + MaxAdvances * ClockStep
    /\ now' = now + ClockStep
    /\ UNCHANGED <<needsAnswer, storeVars, worldVars, decisionVars>>
    /\ UNCHANGED <<animals, aiInstances, monitoring, timers, plans, planningHistory,
                   subscribers, oracleCalls, totalCalls, executing, catching>>
    /\ UNCHANGED obsVars

Next ==
    \/ \E a \in Agents : AddAnimal(a)
    \/ \E a \in Agents : RemoveAnimal(a)
    \/ \E a \in Agents : Subscribe(a)
    \/ \E a \in Agents : Unsubscribe(a)
    \/ PerformHealthChecks
    \/ \E a \in Agents : HandleAnimalDecision(a)
    \/ \E a \in Agents : OracleReturn(a)
    \/ \E a \in Agents : ActionResolved(a)
    \/ \E a \in Agents : CatchComplete(a)
    \/ AdvanceClock

Spec == Init /\ [][Next]_vars

\* -------------------------------------------- a client of the plan store
\* The plan store is a module-level singleton with public methods; besides
\* the pipeline, any client (the UI, a test) may call them with plans of its
\* own making.
PlanArgOffsets     == 0..1
PlanArgCursors     == 0..2
PlanArgConfidences == {LOW_CONFIDENCE - 1, LOW_CONFIDENCE}

\* The plans a client passes to storePlan at time t.
PlanArgs(t) ==
    { [steps            |-> [i \in 1..Len(o) |-> NewStep(i - 1, o[i])],
       createdAt        |-> t,
       lastUpdated      |-> t,
       currentStepIndex |-> c,
       confidence       |-> conf,
       origin           |-> "client"] :
      o \in SeqsUpTo(PlanArgOffsets, 2), c \in PlanArgCursors,
      conf \in PlanArgConfidences }

\* storePlan, lines 52-53: this.plans.set(plan.animalId, plan).
StorePlan(mp, plan) == <<plan>>

\* clearPlan: this.plans.delete(animalId).
ClearPlan(mp) == <<>>

StorePlanCall(a) ==
    /\ planSeq[a] < MaxStores
    /\ \E plan \in PlanArgs(now) :
          plans' = [plans EXCEPT ![a] = StorePlan(plans[a], plan)]
    /\ planningHistory' =
          [planningHistory EXCEPT ![a] = PushHistory(@, planSeq[a] + 1)]
    /\ planSeq' = [planSeq EXCEPT ![a] = @ + 1]
    /\ nCompleted' = [nCompleted EXCEPT ![a] = 0]
    /\ lastDoneAt' = [lastDoneAt EXCEPT ![a] = 0]
    /\ stepOpen' = [stepOpen EXCEPT ![a] = FALSE]
    /\ needsAnswer' = [needsAnswer EXCEPT ![a] = "none"]
    /\ UNCHANGED <<now, animals, subscribers, pipelineVars, storeVars, worldVars, decisionVars>>

ClearPlanCall(a) ==
    /\ HasPlan(plans[a])
    /\ plans' = [plans EXCEPT ![a] = ClearPlan(plans[a])]
    /\ nCompleted' = [nCompleted EXCEPT ![a] = 0]
    /\ lastDoneAt' = [lastDoneAt EXCEPT ![a] = 0]
    /\ stepOpen' = [stepOpen EXCEPT ![a] = FALSE]
    /\ needsAnswer' = [needsAnswer EXCEPT ![a] = "none"]
    /\ UNCHANGED <<now, animals, subscribers, planningHistory, planSeq,
                   pipelineVars, storeVars, worldVars, decisionVars>>

NeedsNewPlanCall(a) ==
    /\ needsAnswer[a] = "none"
    /\ needsAnswer' = [needsAnswer EXCEPT ![a] =
                          IF NeedsNewPlan(plans[a], now) THEN "true" ELSE "false"]
    /\ UNCHANGED <<now, animals, subscribers, plans, planningHistory, planSeq,
                   nCompleted, lastDoneAt, stepOpen, pipelineVars, storeVars, worldVars, decisionVars>>

\* Time passes between two calls of the client: a millisecond, or the
\* whole staleness ceiling.
Wait ==
    /\ \E w \in {1, MAX_PLAN_AGE} :
          /\ w = 1 => (now - 1) % MAX_PLAN_AGE < MaxTicks
          /\ w = MAX_PLAN_AGE => now <= MAX_PLAN_AGE
          /\ now' = now + w
    /\ needsAnswer' = [a \in Agents |-> "none"]
    /\ UNCHANGED <<animals, subscribers, plans, planningHistory, planSeq,
                   nCompleted, lastDoneAt, stepOpen, pipelineVars, storeVars, worldVars, decisionVars>>

PlanStoreNext ==
    \/ \E a \in Agents : StorePlanCall(a)
    \/ \E a \in Agents : ClearPlanCall(a)
    \/ \E a \in Agents : NeedsNewPlanCall(a)
    \/ Wait

PlanStoreSpec == Init /\ [][PlanStoreNext]_vars

\* ------------------------------------------------------- AnimalStateManager
\* Everything the plan store holds and lets observe.
planStoreVars == <<plans, planningHistory, subscribers, stepOpen, lastDoneAt,
                   planSeq, nCompleted, needsAnswer>>

\* An AnimalUpdate; n tells the queued events apart (the n-th one queued).
Event(id, type, n) == [animalId |-> id, type |-> type, n |-> n]

\* What a subscriber callback does when it is invoked: nothing to the store,
\* or an updateStats call for one of the ids.
Reactions == {"none"} \cup StoreIds

\* The store while one of its methods runs: the key set and the records of
\* this.animals, this.updateQueue, the pending flush callbacks, the number of
\* events queued so far and what the method returns.
StoreState(ret) ==
    [ids |-> animals, data |-> animalData, queue |-> updateQueue,
     timers |-> flushTimers, nq |-> nQueued, returned |-> ret]

\* queueUpdate: push, and setTimeout(processUpdateQueue, 0) unless a pass is
\* running.
QueueUpdate(st, ev, processing) ==
    [st EXCEPT !.queue = Append(@, ev),
               !.nq = @ + 1,
               !.timers = IF processing THEN @ ELSE @ + 1]

\* An update method that writes the record whether or not the id is stored.
ApplyUpdate_Upsert(st, id, op, processing) ==
    QueueUpdate([st EXCEPT !.ids = @ \cup {id},
                           !.data[id] = @ \cup {FieldOf(op)},
                           !.returned = "true"],
                Event(id, EventType(op), st.nq + 1), processing)

\* updateStats, updatePosition, updateFromActionResult, updateInventory and
\* updateAge: return false for an id that is not stored, else write the
\* record, queue the change event and return true.
ApplyUpdate(st, id, op, processing) ==
    IF id \notin st.ids
    THEN [st EXCEPT !.returned = "false"]
    ELSE QueueUpdate([st EXCEPT !.data[id] = @ \cup {FieldOf(op)},
                                !.returned = "true"],
                     Event(id, EventType(op), st.nq + 1), processing)

\* The callbacks of one round of notifications run one after the other, each
\* with its own reaction.
RECURSIVE ReactAll(_, _, _)
ReactAll(st, rs, processing) ==
    IF rs = <<>> THEN st
    ELSE ReactAll(IF Head(rs) = "none" THEN st
                  ELSE ApplyUpdate(st, Head(rs), "updateStats", processing),
                  Tail(rs), processing)

\* Reactions of n callback invocations that stay within MaxEvents.
ReactionSeqs(n, ids) ==
    { rs \in [1..n -> Reactions] :
        nQueued + Cardinality({i \in 1..n : rs[i] \in ids}) <= MaxEvents }

\* processUpdateQueue, lines 205-211: the updates grouped by animal, the
\* animals in the order of their first update.
RECURSIVE GroupByAnimal(_)
GroupByAnimal(q) ==
    IF q = <<>> THEN <<>>
    ELSE SelectSeq(q, LAMBDA e : e.animalId = Head(q).animalId)
         \o GroupByAnimal(SelectSeq(q, LAMBDA e : e.animalId # Head(q).animalId))

\* processUpdateQueue without its last statement.
RescheduleAfterFlush_Never(q, t) == t

\* processUpdateQueue, lines 223-225: another pass is scheduled when events
\* came in during this one.
RescheduleAfterFlush(q, t) == IF Len(q) > 0 THEN t + 1 ELSE t

\* The callback invocations of a pass over batch: notifySubscribers(update)
\* per update, every registered callback per notification.
Invocations(batch, subs) ==
    IF subs = {} THEN <<>>
    ELSE [i \in 1..Len(batch) |-> [key |-> CHOOSE k \in subs : TRUE,
                                    update |-> batch[i]]]

StoreSubscribe(k) ==
    /\ k \notin storeSubscribers
    /\ storeSubscribers' = storeSubscribers \cup {k}
    /\ UNCHANGED <<animals, animalData, updateQueue, flushTimers,
                   processingUpdates, nQueued, deliveredEvents, lastCall,
                   lastFlush>>
    /\ UNCHANGED <<now, pipelineVars, planStoreVars, worldVars, decisionVars>>

StoreUnsubscribe(k) ==
    /\ k \in storeSubscribers
    /\ storeSubscribers' = storeSubscribers \ {k}
    /\ UNCHANGED <<animals, animalData, updateQueue, flushTimers,
                   processingUpdates, nQueued, deliveredEvents, lastCall,
                   lastFlush>>
    /\ UNCHANGED <<now, pipelineVars, planStoreVars, worldVars, decisionVars>>

\* setAnimal (write is TRUE) and removeAnimal (write is FALSE): the map is
\* written and notifySubscribers is called at once with a 'full' event.
SetOrRemove(id, write) ==
    LET n   == Cardinality(storeSubscribers)
        ids == IF write THEN animals \cup {id} ELSE animals \ {id}
        st0 == [StoreState("void") EXCEPT !.ids = ids, !.data[id] = {}]
    IN  \E rs \in ReactionSeqs(n, ids) :
           LET st == ReactAll(st0, rs, processingUpdates)
           IN  /\ animals' = st.ids
               /\ animalData' = st.data
               /\ updateQueue' = st.queue
               /\ flushTimers' = st.timers
               /\ nQueued' = st.nq
               /\ lastCall' = [op       |-> IF write THEN "setAnimal"
                                                     ELSE "removeAnimal",
                               id       |-> id,
                               present  |-> id \in animals,
                               returned |-> "void",
                               notified |-> n,
                               queued   |-> st.nq - nQueued,
                               wrote    |-> \/ st0.ids # animals
                                            \/ st0.data # animalData]

StoreSetAnimal(id) ==
    /\ SetOrRemove(id, TRUE)
    /\ UNCHANGED <<processingUpdates, storeSubscribers, deliveredEvents, lastFlush>>
    /\ UNCHANGED <<now, pipelineVars, planStoreVars, worldVars, decisionVars>>

StoreRemoveAnimal(id) ==
    /\ SetOrRemove(id, FALSE)
    /\ UNCHANGED <<processingUpdates, storeSubscribers, deliveredEvents, lastFlush>>
    /\ UNCHANGED <<now, pipelineVars, planStoreVars, worldVars, decisionVars>>

\* A call of one of the five update methods.
UpdateCall(id, op) ==
    /\ id \in animals => nQueued < MaxEvents
    /\ LET st == ApplyUpdate(StoreState("void"), id, op, processingUpdates)
       IN  /\ animals' = st.ids
           /\ animalData' = st.data
           /\ updateQueue' = st.queue
           /\ flushTimers' = st.timers
           /\ nQueued' = st.nq
           /\ lastCall' = [op       |-> op,
                           id       |-> id,
                           present  |-> id \in animals,
                           returned |-> st.returned,
                           notified |-> 0,
                           queued   |-> st.nq - nQueued,
                           wrote    |-> \/ st.ids # animals
                                        \/ st.data # animalData]
    /\ UNCHANGED <<processingUpdates, storeSubscribers, deliveredEvents, lastFlush>>
    /\ UNCHANGED <<now, pipelineVars, planStoreVars, worldVars, decisionVars>>

\* A setTimeout(processUpdateQueue, 0) callback runs: nothing when the queue
\* is empty; else the queue is taken, every update is notified in the
\* grouped order while processingUpdates is set, and another pass is
\* scheduled when the callbacks queued new events.
ProcessUpdateQueue ==
    /\ flushTimers > 0
    /\ IF updateQueue = <<>>
       THEN /\ flushTimers' = flushTimers - 1
            /\ UNCHANGED <<animals, animalData, updateQueue, processingUpdates,
                           nQueued, deliveredEvents, lastFlush>>
       ELSE LET batch == GroupByAnimal(updateQueue)
                calls == Invocations(batch, storeSubscribers)
                st0   == [StoreState("void") EXCEPT !.queue = <<>>,
                                                    !.timers = @ - 1]
            IN  \E rs \in ReactionSeqs(Len(calls), animals) :
                   LET st == ReactAll(st0, rs, TRUE)
                   IN  /\ animals' = st.ids
                       /\ animalData' = st.data
                       /\ updateQueue' = st.queue
                       /\ flushTimers' = RescheduleAfterFlush(st.queue, st.timers)
                       /\ processingUpdates' = FALSE
                       /\ nQueued' = st.nq
                       /\ deliveredEvents' = deliveredEvents
                              \cup {batch[i].n : i \in 1..Len(batch)}
                       /\ lastFlush' = [batch  |-> batch,
                                        calls  |-> calls,
                                        queued |-> st.nq - nQueued]
    /\ UNCHANGED <<storeSubscribers, lastCall>>
    /\ UNCHANGED <<now, pipelineVars, planStoreVars, worldVars, decisionVars>>

StoreNext ==
    \/ \E k \in SubscriberKeys : StoreSubscribe(k)
    \/ \E k \in SubscriberKeys : StoreUnsubscribe(k)
    \/ \E id \in StoreIds : StoreSetAnimal(id)
    \/ \E id \in StoreIds : StoreRemoveAnimal(id)
    \/ \E id \in StoreIds, op \in UpdateOps : UpdateCall(id, op)
    \/ ProcessUpdateQueue

\* A timer callback that is due is run by the event loop.
StoreSpec == Init /\ [][StoreNext]_vars /\ WF_vars(ProcessUpdateQueue)

\* ------------------------------------------------------- MXPActionSystem
Abs(x) == IF x >= 0 THEN x ELSE -x

\* An ActionResult.  handler names the private method that built it, threw
\* says that the method threw instead of returning, caught that the result
\* was built by the catch block of executeAction.
Result(handler, success, changes, newPosition, consumed, harvested, rid) ==
    [handler |-> handler, success |-> success, threw |-> FALSE,
     caught |-> FALSE, statChanges |-> changes, newPosition |-> newPosition,
     consumedItem |-> consumed, harvestedItem |-> harvested,
     resourceId |-> rid]

Failed(handler) == Result(handler, FALSE, NoChanges, <<>>, <<>>, <<>>, "absent")
Succeeded(handler, changes) ==
    Result(handler, TRUE, changes, <<>>, <<>>, <<>>, "absent")
Threw(handler) == [Failed(handler) EXCEPT !.threw = TRUE]

\* getWorldStateForAnimal: the resources in sight that hold something.
NearbyResources(res) == {r \in ResourceIds : res[r] > 0}

executeMove(animal, params) ==
    LET distance   == Abs(params.target - animal.position)
        energyCost == Min((move_energyCost * distance * Dna(animal.id).size) \div 10,
                          animal.stats.energy)
    IN  IF animal.stats.energy < energyCost
        THEN Failed("executeMove")
        ELSE [Succeeded("executeMove",
                        [s \in {"energy"} |-> Max(0, animal.stats.energy - energyCost)])
                EXCEPT !.newPosition = <<params.target>>]

\* The first item of the type with something left, "" when there is none.
FindItem(inv, type) ==
    IF \E n \in ItemNames : ItemType(n) = type /\ inv.items[n] > 0
    THEN CHOOSE n \in ItemNames : ItemType(n) = type /\ inv.items[n] > 0
    ELSE ""

\* An executeEat that does not ask whether the inventory holds food.
executeEat_NoInventory(animal, inv) ==
    LET foodItem == FindItem(inv, "food")
        quality  == ResourceQuality(foodItem)
        hungerReduction == (eat_hungerReduction * quality) \div 100
        energyGain      == (eat_energyGain * quality) \div 100
    IN  [Succeeded("executeEat",
            [s \in {"hunger", "energy", "health", "happiness"} |->
               CASE s = "hunger" -> Max(0, animal.stats.hunger - hungerReduction)
                 [] s = "energy" -> Min(100, animal.stats.energy + energyGain)
                 [] s = "health" -> Min(100, animal.stats.health + 2)
                 [] s = "happiness" -> Min(100, animal.stats.happiness + 5)])
           EXCEPT !.consumedItem =
              <<[type |-> "food", name |-> foodItem, quantity |-> 1]>>]

executeEat(animal, inv) ==
    LET foodItem == FindItem(inv, "food")
        quality  == ResourceQuality(foodItem)
        hungerReduction == (eat_hungerReduction * quality) \div 100
        energyGain      == (eat_energyGain * quality) \div 100
        healthGain      == IF quality > 100 THEN 5 ELSE 2
    IN  IF foodItem = ""
        THEN Failed("executeEat")
        ELSE [Succeeded("executeEat",
                 [s \in {"hunger", "energy", "health", "happiness"} |->
                    CASE s = "hunger" -> Max(0, animal.stats.hunger - hungerReduction)
                      [] s = "energy" -> Min(100, animal.stats.energy + energyGain)
                      [] s = "health" -> Min(100, animal.stats.health + healthGain)
                      [] s = "happiness" -> Min(100, animal.stats.happiness + 5)])
                EXCEPT !.consumedItem =
                   <<[type |-> "food", name |-> foodItem, quantity |-> 1]>>]

executeDrink(animal, inv) ==
    LET waterItem == FindItem(inv, "water")
        quality   == ResourceQuality(waterItem)
        thirstReduction == (drink_thirstReduction * quality) \div 100
        healthGain      == (drink_healthGain * quality) \div 100
    IN  IF waterItem = ""
        THEN Failed("executeDrink")
        ELSE [Succeeded("executeDrink",
                 [s \in {"thirst", "health"} |->
                    IF s = "thirst"
                    THEN Max(0, animal.stats.thirst - thirstReduction)
                    ELSE Min(100, animal.stats.health + healthGain)])
                EXCEPT !.consumedItem =
                   <<[type |-> "water", name |-> waterItem, quantity |-> 1]>>]

\* The clamps of executeSleep are Math.min(100, ...) only.
executeSleep(animal, params) ==
    LET energyGain == sleep_energyGain * params.comfort
        healthGain == sleep_healthGain * params.safety
    IN  Succeeded("executeSleep",
           [s \in {"energy", "health", "happiness"} |->
              CASE s = "energy" -> Min(100, animal.stats.energy + energyGain)
                [] s = "health" -> Min(100, animal.stats.health + healthGain)
                [] s = "happiness" ->
                      Min(100, animal.stats.happiness + params.comfort * 5)])

\* playmates.length throws for a null; socialMultiplier is 1.5 with playmates.
executePlay(animal, params) ==
    LET playful == Dna(animal.id).playful
        happinessGain ==
            IF params.playmates = "some"
            THEN (play_happinessGain * 3 * playful * params.toyQuality) \div 200
            ELSE (play_happinessGain * playful * params.toyQuality) \div 100
        energyCost == (play_energyCost * 100) \div playful
    IN  IF params.playmates = "null"
        THEN Threw("executePlay")
        ELSE Succeeded("executePlay",
                [s \in {"happiness", "energy"} |->
                   IF s = "happiness"
                   THEN Min(100, animal.stats.happiness + happinessGain)
                   ELSE Max(0, animal.stats.energy - energyCost)])

\* (intelligence + strength) / 2, in percent.
Effectiveness(id) == (Dna(id).intelligence + Dna(id).strength) \div 2

executeWork(animal, params) ==
    LET effectiveness == Effectiveness(animal.id)
        energyCost == (work_energyCost * params.difficulty * 100) \div effectiveness
    IN  IF animal.stats.energy < energyCost
        THEN Failed("executeWork")
        ELSE Succeeded("executeWork",
                [s \in {"energy", "happiness"} |->
                   IF s = "energy"
                   THEN Max(0, animal.stats.energy - energyCost)
                   ELSE Min(100, animal.stats.happiness
                                   + (work_happinessGain * effectiveness) \div 100)])

\* With a target of the oracle; energy * 0.3 is floored to whole points.
executeExplore(animal, params) ==
    LET distance   == Abs(params.target - animal.position)
        energyCost == Min(15 + distance * 2, (animal.stats.energy * 3) \div 10)
        happiness  == (10 * Dna(animal.id).curiosity) \div 100 + 5
    IN  [Succeeded("executeExplore",
            [s \in {"happiness", "energy"} |->
               IF s = "happiness"
               THEN Min(100, animal.stats.happiness + happiness)
               ELSE Max(0, animal.stats.energy - energyCost)])
           EXCEPT !.newPosition = <<params.target>>]

\* Without companions.
executeSocialize(animal, params) ==
    LET happinessGain == (25 * Dna(animal.id).social) \div 100
    IN  Succeeded("executeSocialize",
           [s \in {"happiness", "energy"} |->
              IF s = "happiness"
              THEN Min(100, animal.stats.happiness + happinessGain)
              ELSE Max(0, animal.stats.energy - 5)])

executeMate(animal, params) ==
    IF params.partner = "absent"
    THEN Failed("executeMate")
    ELSE Succeeded("executeMate",
            [s \in {"happiness", "energy"} |->
               IF s = "happiness"
               THEN Min(100, animal.stats.happiness + 30)
               ELSE Max(0, animal.stats.energy - 30)])

\* The unit weights written out in executeHarvest and in the game manager,
\* in tenths.
UnitWeight(type) == IF type = "stone" THEN 30 ELSE IF type = "wood" THEN 20 ELSE 10

\* A harvest that leaves out the test of the distance.
executeHarvest_NoRadius(animal, params, inv, res) ==
    LET rid == params.resourceId
        type == ResourceType(rid)
        energyCost == 15 + (IF type = "stone" THEN 10 ELSE 0)
        baseAmount == (100 + Effectiveness(animal.id) * 2) \div 100
        harvestAmount == Min(baseAmount, res[rid])
        itemWeight == harvestAmount * UnitWeight(type)
    IN  IF rid = "absent" THEN Failed("executeHarvest")
        ELSE IF rid \notin NearbyResources(res) THEN Failed("executeHarvest")
        ELSE IF animal.stats.energy < energyCost THEN Failed("executeHarvest")
        ELSE IF inv.currentWeight + itemWeight > inv.maxCapacity
             THEN Failed("executeHarvest")
        ELSE [Succeeded("executeHarvest",
                 [s \in {"energy", "happiness"} |->
                    IF s = "energy"
                    THEN Max(0, animal.stats.energy - energyCost)
                    ELSE Min(100, animal.stats.happiness + 5)])
                EXCEPT !.harvestedItem =
                          <<[type |-> ItemType(type), name |-> type,
                             quantity |-> harvestAmount]>>,
                       !.resourceId = rid]

executeHarvest(animal, params, inv, res) ==
    LET rid == params.resourceId
        type == ResourceType(rid)
        distance == Abs(ResourcePosition(rid) - animal.position)
        energyCost == 15 + (IF type = "stone" THEN 10 ELSE 0)
        baseAmount == (100 + Effectiveness(animal.id) * 2) \div 100
        harvestAmount == Min(baseAmount, res[rid])
        itemWeight == harvestAmount * UnitWeight(type)
    IN  IF rid = "absent" THEN Failed("executeHarvest")
        ELSE IF rid \notin NearbyResources(res) THEN Failed("executeHarvest")
        ELSE IF distance > HARVEST_RADIUS THEN Failed("executeHarvest")
        ELSE IF animal.stats.energy < energyCost THEN Failed("executeHarvest")
        ELSE IF inv.currentWeight + itemWeight > inv.maxCapacity
             THEN Failed("executeHarvest")
        ELSE [Succeeded("executeHarvest",
                 [s \in {"energy", "happiness"} |->
                    IF s = "energy"
                    THEN Max(0, animal.stats.energy - energyCost)
                    ELSE Min(100, animal.stats.happiness + 5)])
                EXCEPT !.harvestedItem =
                          <<[type |-> ItemType(type), name |-> type,
                             quantity |-> harvestAmount]>>,
                       !.resourceId = rid]

executeIdle(animal) ==
    Succeeded("executeIdle",
       [s \in {"energy", "happiness"} |->
          IF s = "energy"
          THEN Min(100, animal.stats.energy + 3)
          ELSE Min(100, animal.stats.happiness + 1)])

\* The switch of executeAction: the private method an action name reaches.
HandlerOf(action) ==
    CASE action = "moving"      -> "executeMove"
      [] action = "eating"      -> "executeEat"
      [] action = "drinking"    -> "executeDrink"
      [] action = "sleeping"    -> "executeSleep"
      [] action = "playing"     -> "executePlay"
      [] action = "working"     -> "executeWork"
      [] action = "exploring"   -> "executeExplore"
      [] action = "socializing" -> "executeSocialize"
      [] action = "mating"      -> "executeMate"
      [] action = "harvesting"  -> "executeHarvest"
      [] OTHER                  -> "executeIdle"

\* An executeAction that lets what a handler throws pass to its caller.
executeAction_NoCatch(animal, action, params, inv, res) ==
    LET h == HandlerOf(action)
    IN  CASE h = "executeMove"      -> executeMove(animal, params)
          [] h = "executeEat"       -> executeEat(animal, inv)
          [] h = "executeDrink"     -> executeDrink(animal, inv)
          [] h = "executeSleep"     -> executeSleep(animal, params)
          [] h = "executePlay"      -> executePlay(animal, params)
          [] h = "executeWork"      -> executeWork(animal, params)
          [] h = "executeExplore"   -> executeExplore(animal, params)
          [] h = "executeSocialize" -> executeSocialize(animal, params)
          [] h = "executeMate"      -> executeMate(animal, params)
          [] h = "executeHarvest"   -> executeHarvest(animal, params, inv, res)
          [] h = "executeIdle"      -> executeIdle(animal)

\* executeAction: the switch inside try, the catch block builds a failure
\* result that carries the exception.
executeAction(animal, action, params, inv, res) ==
    LET h == HandlerOf(action)
        r == CASE h = "executeMove"      -> executeMove(animal, params)
               [] h = "executeEat"       -> executeEat(animal, inv)
               [] h = "executeDrink"     -> executeDrink(animal, inv)
               [] h = "executeSleep"     -> executeSleep(animal, params)
               [] h = "executePlay"      -> executePlay(animal, params)
               [] h = "executeWork"      -> executeWork(animal, params)
               [] h = "executeExplore"   -> executeExplore(animal, params)
               [] h = "executeSocialize" -> executeSocialize(animal, params)
               [] h = "executeMate"      -> executeMate(animal, params)
               [] h = "executeHarvest"   -> executeHarvest(animal, params, inv, res)
               [] h = "executeIdle"      -> executeIdle(animal)
    IN  IF r.threw THEN [Failed(h) EXCEPT !.caught = TRUE] ELSE r

\* ------------------------------------- AnimalStateManager: the records
\* The store as a map from id to <<>> or <<record>>.  Every update method
\* copies the record with the spread operator and replaces what it names.
setAnimal(recs, animal) == [recs EXCEPT ![animal.id] = <<animal>>]

\* An updateStats that replaces the whole record by a fresh one.
updateStats_Rebuild(recs, id, stats, t) ==
    IF recs[id] = <<>> THEN recs
    ELSE [recs EXCEPT ![id] =
            <<[NewAnimal(id, t) EXCEPT !.stats = Merge(recs[id][1].stats, stats)]>>]

updateStats(recs, id, stats, t) ==
    IF recs[id] = <<>> THEN recs
    ELSE [recs EXCEPT ![id] =
            <<[recs[id][1] EXCEPT !.stats = Merge(recs[id][1].stats, stats),
                                  !.lastHealthCheck = t]>>]

updatePosition(recs, id, position) ==
    IF recs[id] = <<>> THEN recs
    ELSE [recs EXCEPT ![id] = <<[recs[id][1] EXCEPT !.position = position]>>]

\* inventory is the reference of the copy { ...inventory }.
updateInventory(recs, id, inventory) ==
    IF recs[id] = <<>> THEN recs
    ELSE [recs EXCEPT ![id] = <<[recs[id][1] EXCEPT !.inventory = inventory]>>]

updateAge(recs, id, age, isAlive) ==
    IF recs[id] = <<>> THEN recs
    ELSE [recs EXCEPT ![id] =
            <<[recs[id][1] EXCEPT !.age = age, !.isAlive = isAlive]>>]

updateFromActionResult(recs, id, actionResult, newAction) ==
    IF recs[id] = <<>> THEN recs
    ELSE LET animal == recs[id][1]
         IN  [recs EXCEPT ![id] =
                <<[animal EXCEPT
                     !.currentAction = newAction,
                     !.stats = IF DOMAIN actionResult.statChanges # {}
                               THEN Merge(animal.stats, actionResult.statChanges)
                               ELSE animal.stats,
                     !.position = IF actionResult.newPosition # <<>>
                                  THEN actionResult.newPosition[1]
                                  ELSE animal.position]>>]

\* ------------------------------------------------------ AnimalLifecycle
\* AnimalLifecycle.updateAge: min(1, elapsed / lifespan), alive below 1.
Lifecycle_updateAge(animal, t) ==
    LET newAge == Min(100, ((t - animal.birthTime) * 100) \div Lifespan(animal.id))
    IN  [animal EXCEPT !.age = newAge, !.isAlive = newAge < 100]

\* rate * minutes * (1 + age * 0.5) * (1 - resilience / 100 * 0.3).
Degradation(animal, stat, t) ==
    LET minutesElapsed == (t - animal.lastHealthCheck) \div MS_PER_MINUTE
        ageMultiplier  == 100 + animal.age \div 2
        resilienceMultiplier == 1000 - 3 * Dna(animal.id).resilience
    IN  (degradationRates[stat] * minutesElapsed * ageMultiplier
            * resilienceMultiplier) \div 1000000

\* degradeStats: health, energy and happiness fall and stop at 0, hunger
\* and thirst rise and stop at 100.
degradeStats(animal, t) ==
    [s \in StatNames |->
        IF s \in {"hunger", "thirst"}
        THEN Min(100, animal.stats[s] + Degradation(animal, s, t))
        ELSE Max(0, animal.stats[s] - Degradation(animal, s, t))]

\* checkAnimalHealth and the setAnimal(report.animal) that follows it.
checkAnimalHealth(recs, id, t) ==
    LET currentAnimal == recs[id][1]
        updatedAnimal == Lifecycle_updateAge(currentAnimal, t)
        degradedStats == degradeStats(updatedAnimal, t)
        animalWithDegradedStats ==
            [updatedAnimal EXCEPT !.stats = degradedStats, !.lastHealthCheck = t]
        aged     == updateAge(recs, id, updatedAnimal.age, updatedAnimal.isAlive)
        degraded == updateStats(aged, id, degradedStats, t)
    IN  setAnimal(degraded, animalWithDegradedStats)

\* ----------------------------------------------------------- GameManager
\* harvestResource: the quantities afterwards; refused when the resource
\* holds less than the amount.
harvestResource(res, rid, amount) ==
    IF rid \notin ResourceIds \/ res[rid] < amount
    THEN [success |-> FALSE, resources |-> res]
    ELSE [success |-> TRUE, resources |-> [res EXCEPT ![rid] = @ - amount]]

consumeResource(res, rid, amount) ==
    IF rid \notin ResourceIds \/ res[rid] < amount
    THEN res
    ELSE [res EXCEPT ![rid] = @ - amount]

\* What regenerateResources may add to a resource: Math.random() times 30,
\* 100 or 15, below the thresholds 20, 50 and 5.
RegenerationLimit(type) ==
    CASE type = "food"    -> [below |-> 20, gain |-> 30]
      [] type = "water"   -> [below |-> 50, gain |-> 100]
      [] type = "berries" -> [below |-> 5,  gain |-> 15]
      [] OTHER            -> [below |-> 0,  gain |-> 1]

RegenerationGains(r) ==
    IF RegeneratesOverTime(r) /\ ResourceType(r) \in {"food", "water", "berries"}
    THEN {0, RegenerationLimit(ResourceType(r)).gain - 1}
    ELSE {0}

regenerateResources(res, gains) ==
    [r \in ResourceIds |->
        IF RegeneratesOverTime(r) /\ res[r] < RegenerationLimit(ResourceType(r)).below
        THEN res[r] + gains[r]
        ELSE res[r]]

\* addItemToAnimalInventory: the inventory objects afterwards.
addItemToAnimalInventory(recs, invs, id, item) ==
    IF recs[id] = <<>> THEN invs
    ELSE LET ref == recs[id][1].inventory
             itemWeight == item.quantity * UnitWeight(item.type)
         IN  IF invs[ref].currentWeight + itemWeight > invs[ref].maxCapacity
             THEN invs
             ELSE [invs EXCEPT ![ref].items[item.name] = @ + item.quantity,
                               ![ref].currentWeight = @ + itemWeight]

\* The first item of the type that holds the amount, "" when there is none.
FindItemFor(inv, type, amount) ==
    IF \E n \in ItemNames : ItemType(n) = type /\ inv.items[n] >= amount
    THEN CHOOSE n \in ItemNames : ItemType(n) = type /\ inv.items[n] >= amount
    ELSE ""

consumeItemFromInventory(recs, invs, id, itemType, amount) ==
    IF recs[id] = <<>> THEN invs
    ELSE LET ref  == recs[id][1].inventory
             item == FindItemFor(invs[ref], itemType, amount)
             itemWeight == amount * UnitWeight(itemType)
         IN  IF item = "" THEN invs
             ELSE [invs EXCEPT ![ref].items[item] = @ - amount,
                               ![ref].currentWeight = @ - itemWeight]

\* -------------------------------------------------------- BuildingSystem
\* consumeMaterials: stone first, then wood, each as far as the inventory
\* holds it; the weight falls by RESOURCE_WEIGHTS per unit.
consumeMaterials(inv, materials) ==
    LET stone == Min(inv.items["stone"], materials.stone)
        wood  == Min(inv.items["wood"], materials.wood)
    IN  [inv EXCEPT !.items["stone"] = @ - stone,
                    !.items["wood"] = @ - wood,
                    !.currentWeight = @ - stone * RESOURCE_WEIGHTS.stone
                                        - wood * RESOURCE_WEIGHTS.wood]

\* ------------------------------------------- the game world as it runs
\* An animal that dies or has been removed keeps its pending callbacks; the
\* world below follows stored animals only.

\* Everything outside the game world and the clock.
otherVars == <<pipelineVars, planStoreVars, storeVars, decisionVars>>

\* addAnimal with a record createAnimal has just built.
AddAnimalRecord(id) ==
    /\ records[id] = <<>>
    /\ records' = setAnimal(records, NewAnimal(id, now))
    /\ inventories' = [inventories EXCEPT ![InventoryOf(id)] =
                          EmptyInventory(InitialCapacity(id))]
    /\ animals' = animals \cup {id}
    /\ UNCHANGED <<now, resources, pending, budget, lastResult, lastUpdate>>
    /\ UNCHANGED otherVars

\* Date.now() moves on by TickMinutes.
WorldClock ==
    /\ now + TickMs <= 1 + MaxClockSteps * TickMs
    /\ now' = now + TickMs
    /\ UNCHANGED <<animals, worldVars>>
    /\ UNCHANGED otherVars

\* performHealthChecks: every stored animal is aged and degraded, and a
\* handleAnimalDecision is scheduled with the object the pass began with.
HealthCheckPass ==
    /\ budget.checks < MaxChecks
    /\ \E id \in StoreIds : records[id] # <<>>
    /\ \A id \in StoreIds : Len(pending[id]) < MaxTimers
    /\ records' = [id \in StoreIds |->
                      IF records[id] = <<>> THEN <<>>
                      ELSE checkAnimalHealth(records, id, now)[id]]
    /\ pending' = [id \in StoreIds |->
                      IF records[id] = <<>> THEN pending[id]
                      ELSE Append(pending[id], records[id][1])]
    /\ budget' = [budget EXCEPT !.checks = @ + 1]
    /\ UNCHANGED <<now, animals, inventories, resources, lastResult, lastUpdate>>
    /\ UNCHANGED otherVars

\* executeAnimalAction for the oldest pending callback of id, from the
\* world view it builds to the completeCurrentStep it ends with.  All of it
\* runs without leaving the event loop: no handler awaits anything.
Executed(id, step) ==
    /\ budget.execs < MaxExecs
    /\ pending[id] # <<>>
    /\ LET animal == Head(pending[id])
           result == executeAction(animal, step.action, step.params,
                                   inventories[animal.inventory], resources)
           consumed ==
               IF result.consumedItem # <<>>
               THEN consumeItemFromInventory(records, inventories, id,
                        result.consumedItem[1].type,
                        result.consumedItem[1].quantity)
               ELSE inventories
           harvest ==
               IF result.harvestedItem # <<>> /\ result.resourceId # "absent"
               THEN harvestResource(resources, result.resourceId,
                                    result.harvestedItem[1].quantity)
               ELSE [success |-> FALSE, resources |-> resources]
           added ==
               IF harvest.success
               THEN addItemToAnimalInventory(records, consumed, id,
                                             result.harvestedItem[1])
               ELSE consumed
       IN  /\ CASE result.threw ->
                     UNCHANGED <<records, inventories, resources>>
                [] result.success ->
                     /\ inventories' = added
                     /\ resources' = harvest.resources
                     /\ records' = updateFromActionResult(records, id, result,
                                                          step.action)
                [] OTHER ->
                     /\ records' = IF records[id] = <<>> THEN records
                                   ELSE setAnimal(records,
                                           [records[id][1] EXCEPT
                                               !.currentAction = "idle"])
                     /\ UNCHANGED <<inventories, resources>>
           /\ lastResult' = [n |-> budget.execs + 1, id |-> id,
                             action |-> step.action, params |-> step.params,
                             animal |-> <<animal>>,
                             result |-> result,
                             completed |-> IF result.success THEN "success"
                                           ELSE "failed"]
    /\ pending' = [pending EXCEPT ![id] = Tail(@)]
    /\ budget' = [budget EXCEPT !.execs = @ + 1]
    /\ UNCHANGED <<now, animals, lastUpdate>>

\* A decision callback that runs the step a plan holds for the animal.
ExecuteAnimalAction(id, step) ==
    /\ Executed(id, step)
    /\ UNCHANGED otherVars

\* The resource pass of the game loop.
RegenerateResources ==
    /\ budget.regens < MaxRegens
    /\ \E gains \in [ResourceIds -> UNION {RegenerationGains(r) : r \in ResourceIds}] :
          /\ \A r \in ResourceIds : gains[r] \in RegenerationGains(r)
          /\ resources' = regenerateResources(resources, gains)
    /\ budget' = [budget EXCEPT !.regens = @ + 1]
    /\ UNCHANGED <<now, animals, records, inventories, pending, lastResult,
                   lastUpdate>>
    /\ UNCHANGED otherVars

\* gameManager.consumeResource(rid), the amount left at its default.
ConsumeResourceCall(rid) ==
    /\ budget.calls < MaxDirect
    /\ resources' = consumeResource(resources, rid, 1)
    /\ budget' = [budget EXCEPT !.calls = @ + 1]
    /\ UNCHANGED <<now, animals, records, inventories, pending, lastResult,
                   lastUpdate>>
    /\ UNCHANGED otherVars

\* The materials the building actions require.
RequiredMaterials == {[stone |-> 1, wood |-> 1], [stone |-> 2, wood |-> 2]}

\* buildingSystem.consumeMaterials(animal, materials) on a stored animal.
ConsumeMaterialsCall(id, materials) ==
    /\ budget.calls < MaxDirect
    /\ records[id] # <<>>
    /\ inventories' = [inventories EXCEPT ![records[id][1].inventory] =
                          consumeMaterials(@, materials)]
    /\ budget' = [budget EXCEPT !.calls = @ + 1]
    /\ UNCHANGED <<now, animals, records, resources, pending, lastResult,
                   lastUpdate>>
    /\ UNCHANGED otherVars

\* One unit of food or water, as harvestResource hands it out.
GrantedItems ==
    {[type |-> ItemType(n), name |-> n, quantity |-> 1] : n \in {"berries", "water"}}

\* gameManager.addItemToAnimalInventory(id, item).
AddItemCall(id, item) ==
    /\ budget.calls < MaxDirect
    /\ records[id] # <<>>
    /\ inventories' = addItemToAnimalInventory(records, inventories, id, item)
    /\ budget' = [budget EXCEPT !.calls = @ + 1]
    /\ UNCHANGED <<now, animals, records, resources, pending, lastResult,
                   lastUpdate>>
    /\ UNCHANGED otherVars

WorldNext ==
    \/ \E id \in StoreIds : AddAnimalRecord(id)
    \/ WorldClock
    \/ HealthCheckPass
    \/ \E id \in StoreIds : \E step \in StepInputsOf(id) : ExecuteAnimalAction(id, step)
    \/ RegenerateResources
    \/ \E rid \in ResourceIds : ConsumeResourceCall(rid)
    \/ \E id \in StoreIds : \E m \in RequiredMaterials : ConsumeMaterialsCall(id, m)
    \/ \E id \in StoreIds : \E item \in GrantedItems : AddItemCall(id, item)

WorldSpec == Init /\ [][WorldNext]_vars

\* ------------------------------------------- a client of the agent store
\* The update methods called one at a time on the records.
StatsArgs == {[s \in {"hunger"} |-> 0], [s \in StatNames |-> 100]}
InventoryArgs ==
    {[EmptyInventory(50) EXCEPT !.items["berries"] = 1, !.currentWeight = 10]}
AgeArgs == {50, 100}

Updated(op, id) ==
    /\ lastUpdate' = [op |-> op, id |-> id, present |-> records[id] # <<>>]
    /\ budget' = [budget EXCEPT !.updates = @ + 1]

UpdateStatsCall(id) ==
    /\ budget.updates < MaxUpdates
    /\ \E stats \in StatsArgs : records' = updateStats(records, id, stats, now)
    /\ Updated("updateStats", id)
    /\ UNCHANGED <<now, animals, inventories, resources, pending, lastResult>>
    /\ UNCHANGED otherVars

UpdatePositionCall(id) ==
    /\ budget.updates < MaxUpdates
    /\ \E position \in Positions : records' = updatePosition(records, id, position)
    /\ Updated("updatePosition", id)
    /\ UNCHANGED <<now, animals, inventories, resources, pending, lastResult>>
    /\ UNCHANGED otherVars

\* The record refers to the copy { ...inventory } from now on.
UpdateInventoryCall(id) ==
    /\ budget.updates < MaxUpdates
    /\ \E inventory \in InventoryArgs :
          /\ records' = updateInventory(records, id, CopiedInventoryOf(id))
          /\ inventories' = IF records[id] = <<>> THEN inventories
                            ELSE [inventories EXCEPT ![CopiedInventoryOf(id)] = inventory]
    /\ Updated("updateInventory", id)
    /\ UNCHANGED <<now, animals, resources, pending, lastResult>>
    /\ UNCHANGED otherVars

UpdateAgeCall(id) ==
    /\ budget.updates < MaxUpdates
    /\ \E age \in AgeArgs : \E isAlive \in BOOLEAN :
          records' = updateAge(records, id, age, isAlive)
    /\ Updated("updateAge", id)
    /\ UNCHANGED <<now, animals, inventories, resources, pending, lastResult>>
    /\ UNCHANGED otherVars

RecordNext ==
    \/ \E id \in StoreIds : AddAnimalRecord(id)
    \/ WorldClock
    \/ \E id \in StoreIds : UpdateStatsCall(id)
    \/ \E id \in StoreIds : UpdatePositionCall(id)
    \/ \E id \in StoreIds : UpdateInventoryCall(id)
    \/ \E id \in StoreIds : UpdateAgeCall(id)

RecordSpec == Init /\ [][RecordNext]_vars

\* ------------------------------------- the oracle's answer and the client
\* route.ts: the action of the response is checked against validActions.
finalAction(action) == IF action \in validActions THEN action ELSE "idle"

\* route.ts: the steps of result.newPlan carry step.action as it came.
newPlanSteps(response) == [i \in 1..Len(response.plan) |-> response.plan[i]]

\* The body POST answers with: newPlan is <<>> when the response has no plan.
POST(response) ==
    [action  |-> finalAction(response.action),
     newPlan |-> IF response.plan # <<>> THEN <<newPlanSteps(response)>> ELSE <<>>]

\* createFallbackPlan: the actions of the steps, from the needs of the animal
\* and what its inventory holds.
FallbackActions(animal, inv) ==
    LET hasWater == inv.items["water"] > 0
        hasFood  == \E n \in ItemNames :
                       (ItemType(n) = "food" \/ ItemType(n) = "berries") /\ inv.items[n] > 0
        hasStone == inv.items["stone"] >= 2
        hasWood  == inv.items["wood"] >= 2
        u1 == IF animal.stats.thirst > URGENT_THIRST
              THEN <<IF hasWater THEN "drinking" ELSE "exploring">> ELSE <<>>
        u2 == IF animal.stats.hunger > URGENT_HUNGER
              THEN Append(u1, IF hasFood THEN "eating" ELSE "exploring") ELSE u1
        u3 == IF animal.stats.energy < LOW_ENERGY
              THEN Append(u2, IF hasStone /\ hasWood THEN "building" ELSE "exploring")
              ELSE u2
    IN  IF Len(u3) = 0 THEN <<"exploring">> ELSE u3

\* decideAction: result.newPlan is stored when the answer has one, a
\* fallback plan otherwise; result.action is not read.
decideAction(animal, inv, result) ==
    IF result.newPlan # <<>>
    THEN [steps |-> result.newPlan[1], cursor |-> 0]
    ELSE [steps |-> FallbackActions(animal, inv), cursor |-> 0]

\* needsNewPlan as far as the steps go: no plan, or the cursor past the end.
PlanExhausted(plan) == plan.cursor >= Len(plan.steps)

\* createNewPlan in a decision callback of id: the request is answered with
\* response and the plan is stored.  The callback stays pending: it goes on
\* to run the first step.
DecideActionCall(id, response) ==
    /\ budget.decisions < MaxDecisions
    /\ pending[id] # <<>>
    /\ PlanExhausted(actionPlans[id])
    /\ LET animal == Head(pending[id])
           result == POST(response)
       IN  /\ actionPlans' = [actionPlans EXCEPT ![id] =
                  decideAction(animal, inventories[animal.inventory], result)]
           /\ lastDecision' = [n |-> budget.decisions + 1, id |-> id,
                               response |-> response, action |-> result.action,
                               fallback |-> result.newPlan = <<>>]
    /\ budget' = [budget EXCEPT !.decisions = @ + 1]
    /\ UNCHANGED <<now, animals, records, inventories, resources, pending,
                   lastResult, lastUpdate>>
    /\ UNCHANGED <<pipelineVars, planStoreVars, storeVars, extraVars>>

\* executePlanStep on the step at the cursor, with the action name the plan
\* holds; completeCurrentStep moves the cursor.
RunPlanStep(id) ==
    /\ ~PlanExhausted(actionPlans[id])
    /\ Executed(id, [action |-> actionPlans[id].steps[actionPlans[id].cursor + 1],
                     params |-> NoParams])
    /\ actionPlans' = [actionPlans EXCEPT ![id].cursor = @ + 1]
    /\ UNCHANGED lastDecision
    /\ UNCHANGED <<pipelineVars, planStoreVars, storeVars, extraVars>>

DecisionNext ==
    \/ \E id \in StoreIds : AddAnimalRecord(id)
    \/ WorldClock
    \/ HealthCheckPass
    \/ \E id \in StoreIds : \E item \in GrantedItems : AddItemCall(id, item)
    \/ \E id \in StoreIds : \E response \in Responses : DecideActionCall(id, response)
    \/ \E id \in StoreIds : RunPlanStep(id)

DecisionSpec == Init /\ [][DecisionNext]_vars

\* --------------------------------------- route.ts: the shape of a plan step
\* A JSON value of a step of the response: a number, a non-empty string, or
\* a key that is missing.
Missing == [kind |-> "missing", num |-> 0]
Num(n)  == [kind |-> "number", num |-> n]
Str     == [kind |-> "string", num |-> 0]

\* What the language model may write into a step.
RawPriorities  == {Missing, Num(1), Num(10), Num(11), Str}
RawTurnOffsets == {Missing, Num(1), Num(-1), Str}
RawReasons     == {Missing, Str}
RawSteps ==
    [priority : RawPriorities, turnOffset : RawTurnOffsets, reason : RawReasons]

\* value || default: undefined and 0 are falsy.
Falsy(v) == v.kind = "missing" \/ (v.kind = "number" /\ v.num = 0)
OrDefault(v, default) == IF Falsy(v) THEN default ELSE v

\* result.newPlan.steps: the id is step_<Date.now()>_<index>.
NormalizedSteps(rawSteps, t) ==
    [i \in 1..Len(rawSteps) |->
        [id         |-> <<t, i - 1>>,
         priority   |-> OrDefault(rawSteps[i].priority, Num(5)),
         turnOffset |-> OrDefault(rawSteps[i].turnOffset, Num(i - 1)),
         reason     |-> OrDefault(rawSteps[i].reason, Str)]]

\* A request whose response carries a plan with the steps rawSteps:
\* decideAction passes result.newPlan to storePlan as it is.
RouteRequest(a, rawSteps) ==
    /\ storedSteps' = NormalizedSteps(rawSteps, now)
    /\ UNCHANGED <<now, animals, pipelineVars, planStoreVars, storeVars, worldVars,
                   actionPlans, lastDecision, worldAnimals, syncQueue>>

RouteNext ==
    \E a \in Agents : \E rawSteps \in SeqsUpTo(RawSteps, MaxStepNames) \ {<<>>} :
        RouteRequest(a, rawSteps)

RouteSpec == Init /\ [][RouteNext]_vars

\* ------------------------------------------- removal of an agent of the world
\* healthMonitor.removeAnimal: the record leaves the store; the callbacks
\* setTimeout holds for the animal, its plan and its inventory object stay.
RemoveAnimalRecord(id) ==
    /\ records[id] # <<>>
    /\ records' = [records EXCEPT ![id] = <<>>]
    /\ animals' = animals \ {id}
    /\ UNCHANGED <<now, inventories, resources, pending, budget, lastResult,
                   lastUpdate>>
    /\ UNCHANGED otherVars

\* The steps a plan holds for the callbacks: harvests of the resources.
HarvestSteps == {i \in StepInputs : i.action = "harvesting"}

RemovalNext ==
    \/ \E id \in StoreIds : AddAnimalRecord(id)
    \/ HealthCheckPass
    \/ \E id \in StoreIds : RemoveAnimalRecord(id)
    \/ \E id \in StoreIds : \E step \in HarvestSteps : ExecuteAnimalAction(id, step)
    \/ \E id \in StoreIds : \E response \in Responses : DecideActionCall(id, response)
    \/ \E id \in StoreIds : RunPlanStep(id)

RemovalSpec == Init /\ [][RemovalNext]_vars

\* -------------------------- GameManager.worldState.animals and the store
\* { ...a, ...b }
Spread(a, b) ==
    [k \in DOMAIN a \cup DOMAIN b |-> IF k \in DOMAIN b THEN b[k] ELSE a[k]]

AnimalUpdate(id, type, data) == [animalId |-> id, type |-> type, data |-> data]

\* worldState.animals.findIndex(a => a.id === id), from 1; 0 for -1.
FindIndex(list, id) ==
    LET hits == {i \in 1..Len(list) : "id" \in DOMAIN list[i] /\ list[i].id = id}
    IN  IF hits = {} THEN 0 ELSE CHOOSE i \in hits : \A j \in hits : i <= j

\* list.splice(index, 1)
Splice(list, index) ==
    [i \in 1..(Len(list) - 1) |-> IF i < index THEN list[i] ELSE list[i + 1]]

\* handleAnimalStateUpdate, the callback the game manager subscribes with.
handleAnimalStateUpdate(list, update) ==
    LET animalIndex == FindIndex(list, update.animalId)
        noKeys      == DOMAIN update.data = {}
    IN  IF update.type = "full"
        THEN IF animalIndex > 0 /\ noKeys THEN Splice(list, animalIndex)
             ELSE IF animalIndex > 0
                  THEN [list EXCEPT ![animalIndex] = update.data]
             ELSE IF ~noKeys THEN Append(list, update.data)
             ELSE list
        ELSE IF animalIndex > 0
             THEN [list EXCEPT ![animalIndex] = Spread(@, update.data)]
             ELSE list

RECURSIVE HandleAll(_, _)
HandleAll(list, updates) ==
    IF updates = <<>> THEN list
    ELSE HandleAll(handleAnimalStateUpdate(list, Head(updates)), Tail(updates))

\* spawnRandomAnimal (offspring is FALSE) and spawnOffspring (TRUE, the
\* animal is pushed on the list first): healthMonitor.addAnimal hands the
\* animal to setAnimal, which notifies at once with the whole record.
SpawnAnimal(id, offspring) ==
    /\ records[id] = <<>>
    /\ LET animal == NewAnimal(id, now)
           pushed == IF offspring THEN Append(worldAnimals, animal) ELSE worldAnimals
       IN  /\ records' = setAnimal(records, animal)
           /\ worldAnimals' =
                 handleAnimalStateUpdate(pushed, AnimalUpdate(id, "full", animal))
    /\ inventories' = [inventories EXCEPT ![InventoryOf(id)] =
                          EmptyInventory(InitialCapacity(id))]
    /\ animals' = animals \cup {id}
    /\ UNCHANGED <<now, resources, pending, budget, lastResult, lastUpdate>>
    /\ UNCHANGED <<pipelineVars, planStoreVars, storeVars, actionPlans,
                   lastDecision, storedSteps, syncQueue>>

\* The events of one animal of a performHealthChecks pass: updateAge and
\* updateStats queue theirs, setAnimal(report.animal) notifies at once.
QueuedByCheck(recs, id, t) ==
    LET updatedAnimal == Lifecycle_updateAge(recs[id][1], t)
    IN  <<AnimalUpdate(id, "full", [age |-> updatedAnimal.age,
                                    isAlive |-> updatedAnimal.isAlive]),
          AnimalUpdate(id, "stats", [stats |-> degradeStats(updatedAnimal, t)])>>

RECURSIVE CheckAll(_, _, _)
CheckAll(st, ids, t) ==
    IF ids = <<>> THEN st
    ELSE LET id == Head(ids)
         IN  IF st.recs[id] = <<>> THEN CheckAll(st, Tail(ids), t)
             ELSE LET recs == checkAnimalHealth(st.recs, id, t)
                  IN  CheckAll([recs  |-> recs,
                                queue |-> st.queue \o QueuedByCheck(st.recs, id, t),
                                list  |-> handleAnimalStateUpdate(st.list,
                                             AnimalUpdate(id, "full", recs[id][1]))],
                               Tail(ids), t)

\* performHealthChecks as the store and the game manager see it.
HealthCheckEvents ==
    /\ budget.checks < MaxChecks
    /\ \E id \in StoreIds : records[id] # <<>>
    /\ LET st == CheckAll([recs |-> records, queue |-> syncQueue,
                           list |-> worldAnimals], <<"a1", "a2">>, now)
       IN  /\ records' = st.recs
           /\ syncQueue' = st.queue
           /\ worldAnimals' = st.list
    /\ budget' = [budget EXCEPT !.checks = @ + 1]
    /\ UNCHANGED <<now, animals, inventories, resources, pending, lastResult,
                   lastUpdate>>
    /\ UNCHANGED <<pipelineVars, planStoreVars, storeVars, actionPlans,
                   lastDecision, storedSteps>>

\* processUpdateQueue: the queued events reach the game manager, grouped by
\* animal.
FlushEvents ==
    /\ syncQueue # <<>>
    /\ worldAnimals' = HandleAll(worldAnimals, GroupByAnimal(syncQueue))
    /\ syncQueue' = <<>>
    /\ UNCHANGED <<now, animals, worldVars>>
    /\ UNCHANGED <<pipelineVars, planStoreVars, storeVars, actionPlans,
                   lastDecision, storedSteps>>

\* GameManager.removeAnimal: nothing when the list has no entry with the id;
\* else the entry is spliced out and the store drops the record, notifying
\* with an event without data.
RemoveWorldAnimal(id) ==
    /\ records[id] # <<>>
    /\ LET animalIndex == FindIndex(worldAnimals, id)
       IN  IF animalIndex = 0
           THEN UNCHANGED <<records, animals, worldAnimals>>
           ELSE /\ records' = [records EXCEPT ![id] = <<>>]
                /\ animals' = animals \ {id}
                /\ worldAnimals' =
                      handleAnimalStateUpdate(Splice(worldAnimals, animalIndex),
                                              AnimalUpdate(id, "full", <<>>))
    /\ UNCHANGED <<now, inventories, resources, pending, budget, lastResult,
                   lastUpdate>>
    /\ UNCHANGED <<pipelineVars, planStoreVars, storeVars, actionPlans,
                   lastDecision, storedSteps, syncQueue>>

SyncNext ==
    \/ \E id \in StoreIds : \E offspring \in BOOLEAN : SpawnAnimal(id, offspring)
    \/ WorldClock
    \/ HealthCheckEvents
    \/ FlushEvents
    \/ \E id \in StoreIds : RemoveWorldAnimal(id)

SyncSpec == Init /\ [][SyncNext]_vars

\* ===================================================================== claims
Cursor(a) == plans[a][1].currentStepIndex
Steps(a)  == plans[a][1].steps
Remaining(a) == HasPlan(plans[a]) /\ Cursor(a) < Len(Steps(a))
InFlight(a) ==
    IF HasPlan(plans[a])
    THEN {i \in 1..Len(Steps(a)) : Steps(a)[i].startedAt # 0 /\ Steps(a)[i].completedAt = 0}
    ELSE {}
FailedOutcomes == {"noplan", "notok", "throw"}

\* C1: an agent never has two oracle calls (decideAction requests)
\* outstanding at the same time.
C1_OneOracleCall == \A a \in Agents : oracleCalls[a] <= 1

C3_ExactlyOneCompletion == \A a \in Agents : lastCompletions[a] \in {-1, 1}

\* C4: at most one step of an agent's plan is in flight (startedAt set,
\* completedAt unset) and at most one action execution is outstanding.
C4_OneStepInFlight ==
    \A a \in Agents :
        /\ Cardinality(InFlight(a)) <= 1
        /\ executing[a] + (IF catching[a] THEN 1 ELSE 0) <= 1

C4_Witness ==
    \E a \in Agents :
        /\ executing[a] = 1
        /\ Cardinality(InFlight(a)) = 1
        /\ Len(Steps(a)) >= 2
        /\ timers[a] > 0
        /\ oracleCalls[a] > 0

\* C5: an agent that may decide either has an eligible step or needs a new
\* plan; it never sits idle on a plan that still has steps.
C5_NeverIdleWithPlan ==
    \A a \in Agents :
        ~( /\ CanMakeNewDecision(plans[a], now)
           /\ GetCurrentStep(plans[a]) = 0
           /\ ~NeedsNewPlan(plans[a], now) )

\* C6: after an oracle call that threw, was not OK or carried no plan, the
\* stored plan is a fallback plan with at least one step whose first step has
\* turnOffset 0, and that step was picked up by the same scheduling attempt.
C6_FallbackEligible ==
    \A a \in Agents :
        lastOutcome[a] \in FailedOutcomes
        => /\ HasPlan(plans[a])
           /\ plans[a][1].origin = "fallback"
           /\ Len(Steps(a)) >= 1
           /\ Steps(a)[1].turnOffset = 0
           /\ Steps(a)[1].startedAt # 0

C6_Witness ==
    \E a \in Agents :
        /\ lastOutcome[a] = "throw"
        /\ HasPlan(plans[a])
        /\ Len(Steps(a)) = 3
        /\ Cursor(a) = 0
        /\ executing[a] = 1

C8_StartedOnlyAtZero ==
    \A a \in Agents :
        HasPlan(plans[a])
        => /\ \A i \in 1..Len(Steps(a)) :
                Steps(a)[i].startedAt # 0 => Steps(a)[i].turnOffset = 0
           /\ GetCurrentStep(plans[a]) # 0
                => /\ GetCurrentStep(plans[a]) = Cursor(a) + 1
                   /\ Steps(a)[GetCurrentStep(plans[a])].turnOffset = 0

C8_Witness ==
    \E a \in Agents :
        /\ Remaining(a)
        /\ Cursor(a) >= 1
        /\ Steps(a)[Cursor(a)].startedAt # 0
        /\ Steps(a)[Cursor(a) + 1].turnOffset > 0
        /\ Steps(a)[Cursor(a) + 1].startedAt = 0
        /\ CanMakeNewDecision(plans[a], now)
        /\ timers[a] = 0

\* C9: while the same plan stays stored its cursor never decreases, every
\* completeCurrentStep call raises it by exactly one, and once an N-step plan
\* has had N completions needsNewPlan is true.
C9_CursorMonotone ==
    /\ [][ \A a \in Agents :
             /\ ( HasPlan(plans[a]) /\ oracleCalls'[a] >= oracleCalls[a] )
                => /\ HasPlan(plans'[a])
                   /\ plans'[a][1].currentStepIndex >= Cursor(a)
             /\ ( HasPlan(plans[a]) /\ nCompleted'[a] = nCompleted[a] + 1 )
                => plans'[a][1].currentStepIndex = Cursor(a) + 1 ]_vars
    /\ [](\A a \in Agents :
             HasPlan(plans[a])
             => /\ Cursor(a) = nCompleted[a]
                /\ nCompleted[a] >= Len(Steps(a)) => NeedsNewPlan(plans[a], now))

C9_Witness ==
    \E a \in Agents :
        /\ HasPlan(plans[a])
        /\ Len(Steps(a)) = 2
        /\ nCompleted[a] = 2
        /\ lastCompletions[a] = 1
        /\ plans[a][1].createdAt < now

\* C10: a completeCurrentStep call lowers turnOffset by one, not below zero,
\* on every step at or after the new cursor and leaves the turnOffset of the
\* steps before it unchanged.
C10_TurnOffsetDecrement ==
    [][ \A a \in Agents :
          ( HasPlan(plans[a]) /\ nCompleted'[a] = nCompleted[a] + 1 )
          => /\ Len(plans'[a][1].steps) = Len(Steps(a))
             /\ \A i \in 1..Len(Steps(a)) :
                   plans'[a][1].steps[i].turnOffset =
                      IF i - 1 >= plans'[a][1].currentStepIndex
                      THEN Max(0, Steps(a)[i].turnOffset - 1)
                      ELSE Steps(a)[i].turnOffset ]_vars

\* One completion has brought the second and the third step of a plan from
\* turnOffset 1 to 0; the second step is running, and its completion meets
\* the third step at zero.
C10_Witness ==
    \E a \in Agents :
        /\ Remaining(a)
        /\ plans[a][1].origin = "oracle"
        /\ Len(Steps(a)) = 3
        /\ nCompleted[a] = 1
        /\ Cursor(a) = 1
        /\ InFlight(a) = {2}
        /\ executing[a] = 1
        /\ Steps(a)[3].turnOffset = 0

\* The four reasons the contract of needsNewPlan lists.
ReplanReasons(a) ==
    \/ ~HasPlan(plans[a])
    \/ Cursor(a) >= Len(Steps(a))
    \/ plans[a][1].confidence < LOW_CONFIDENCE
    \/ now - plans[a][1].createdAt > MAX_PLAN_AGE

\* C11: needsNewPlan is true exactly when there is no plan, or the cursor is
\* at or past the number of steps, or the confidence is below 0.3, or the
\* plan is more than ten minutes old; otherwise it is false.  This holds of
\* the function in every state and of every answer a client was given.
C11_NeedsNewPlanExact ==
    \A a \in Agents :
        /\ NeedsNewPlan(plans[a], now) <=> ReplanReasons(a)
        /\ needsAnswer[a] = "true" => ReplanReasons(a)
        /\ needsAnswer[a] = "false" => ~ReplanReasons(a)

\* A plan with steps left, of confidence exactly 0.3 and exactly ten minutes
\* old, was answered with false.
C11_Witness ==
    \E a \in Agents :
        /\ needsAnswer[a] = "false"
        /\ Remaining(a)
        /\ plans[a][1].confidence = LOW_CONFIDENCE
        /\ now - plans[a][1].createdAt = MAX_PLAN_AGE

\* C12: once failed steps have brought the confidence of a plan with steps
\* left below 0.3, no further step of that plan is started: the next
\* decision asks for a new plan instead.
C12_LowConfidenceForcesReplan ==
    [][ \A a \in Agents :
          ( /\ Remaining(a)
            /\ plans[a][1].origin = "oracle"
            /\ plans[a][1].confidence < LOW_CONFIDENCE
            /\ planSeq'[a] = planSeq[a] )
          => \A i \in 1..Len(Steps(a)) :
                plans'[a][1].steps[i].startedAt = Steps(a)[i].startedAt ]_vars

\* C13: storePlan(p) leaves p as the active plan with cursor zero, whatever
\* cursor p carried, and with no step of the plan it replaced.
C13_StoreResetsCursor ==
    [][ \A a \in Agents :
          planSeq'[a] = planSeq[a] + 1
          => /\ HasPlan(plans'[a])
             /\ plans'[a][1].currentStepIndex = 0
             /\ plans'[a][1].createdAt = now
             /\ \A i \in 1..Len(plans'[a][1].steps) :
                   /\ plans'[a][1].steps[i].startedAt = 0
                   /\ plans'[a][1].steps[i].completedAt = 0 ]_vars

\* The ordinals n-k+1 .. n, all of 1 .. n when n < k.
LastOrdinals(n, k) == [i \in 1..Min(n, k) |-> n - Min(n, k) + i]

\* C14: after any number of storePlan calls the history ring holds the plans
\* that were replaced, not the active one, in the order of replacement, and
\* no more than the five most recent of them.
C14_HistoryHoldsReplaced ==
    \A a \in Agents :
        planningHistory[a] = LastOrdinals(Max(0, planSeq[a] - 1), HISTORY_LIMIT)

\* C15: when removeAnimal returns, the removed id has no stored plan, no
\* AnimalAI, and no later callback issues an oracle call for it.
C15_RemovalClearsPlan ==
    [][ \A a \in Agents :
          /\ ( a \in animals /\ a \notin animals' )
             => /\ ~HasPlan(plans'[a])
                /\ a \notin aiInstances'
          /\ ( a \notin animals /\ a \notin animals' )
             => oracleCalls'[a] <= oracleCalls[a] ]_vars

\* C16: the answer to an oracle call whose agent has been removed in the
\* meantime is dropped: it stores no plan and starts no step.
C16_RemovedAgentResultDiscarded ==
    [][ \A a \in Agents :
          ( a \notin animals /\ oracleCalls'[a] < oracleCalls[a] )
          => /\ plans'[a] = plans[a]
             /\ planningHistory'[a] = planningHistory[a]
             /\ executing'[a] = executing[a] ]_vars

MutationOps == {"setAnimal", "removeAnimal"} \cup UpdateOps

\* The updates of a pass that concern id, and the callback invocations made
\* for them.
UpdatesFor(id) == SelectSeq(lastFlush.batch, LAMBDA e : e.animalId = id)
CallsFor(id)   == SelectSeq(lastFlush.calls, LAMBDA c : c.update.animalId = id)

\* C17: no mutation call of the store (setAnimal, removeAnimal, the five
\* update methods) invokes a subscriber callback before it returns.
C17_NoSynchronousCallback ==
    lastCall.op \in MutationOps => lastCall.notified = 0

\* C18: when a pass delivers k > 1 updates of one animal, the subscriber is
\* invoked fewer than k times for them.
C18_BurstCoalesced ==
    \A id \in StoreIds :
        Len(UpdatesFor(id)) > 1 => Len(CallsFor(id)) < Len(UpdatesFor(id))

\* C19: a pass delivers only events that were queued before it began, the
\* events queued while it runs stay queued for a later pass, a queue that
\* holds an event always has a pass scheduled, and every queued event is
\* delivered in the end.
C19_DeferredToNextFlush ==
    /\ [][ /\ (deliveredEvents' \ deliveredEvents)
                 \subseteq {updateQueue[i].n : i \in 1..Len(updateQueue)}
           /\ \A i \in 1..Len(updateQueue') :
                 updateQueue'[i].n \notin deliveredEvents' ]_vars
    /\ [](updateQueue # <<>> => flushTimers > 0 /\ ~processingUpdates)
    /\ \A n \in 1..MaxEvents : (nQueued >= n) ~> (n \in deliveredEvents)

\* A callback invoked by a pass has queued an event, which waits for the
\* pass scheduled at the end of that one.
C19_Witness ==
    /\ lastFlush.calls # <<>>
    /\ lastFlush.queued > 0
    /\ Len(updateQueue) = lastFlush.queued
    /\ flushTimers = 1

\* C20: an update method called with an id that is not stored returns false,
\* writes no record, creates none and queues no event.
C20_UnknownIdIsNoOp ==
    /\ []( ( lastCall.op \in UpdateOps /\ ~lastCall.present )
           => /\ lastCall.returned = "false"
              /\ ~lastCall.wrote
              /\ lastCall.queued = 0 )
    /\ [][ ( /\ lastCall' # lastCall
             /\ lastCall'.op \in UpdateOps
             /\ lastCall'.id \notin animals )
           => UNCHANGED <<animals, animalData, updateQueue, flushTimers,
                          nQueued>> ]_vars

\* updateAge for an id that is not stored, while the other animal has a
\* written record and an event waiting.
C20_Witness ==
    /\ lastCall.op = "updateAge"
    /\ ~lastCall.present
    /\ lastCall.returned = "false"
    /\ lastCall.id \notin animals
    /\ \E other \in animals : animalData[other] # {}
    /\ updateQueue # <<>>
\* The record of id keeps the inventory object it had, with what it held.
SameInventory(id) ==
    /\ records'[id][1].inventory = records[id][1].inventory
    /\ inventories' = inventories

\* C21: an update method of the store leaves the records of all other
\* animals as they were, and of the record it is called for updateStats
\* leaves position, inventory and action label, updatePosition leaves stats,
\* inventory and action label, updateAge writes only age and isAlive, and
\* updateInventory writes only the inventory.
C21_FrameEffects ==
    [][ budget'.updates = budget.updates + 1
        => LET op == lastUpdate'.op
               id == lastUpdate'.id
           IN  /\ \A other \in StoreIds \ {id} :
                     /\ records'[other] = records[other]
                     /\ records[other] # <<>>
                        => inventories'[records[other][1].inventory]
                              = inventories[records[other][1].inventory]
               /\ records[id] # <<>>
                  => /\ records'[id] # <<>>
                     /\ op = "updateStats"
                        => /\ records'[id][1].position = records[id][1].position
                           /\ records'[id][1].currentAction = records[id][1].currentAction
                           /\ SameInventory(id)
                     /\ op = "updatePosition"
                        => /\ records'[id][1].stats = records[id][1].stats
                           /\ records'[id][1].currentAction = records[id][1].currentAction
                           /\ SameInventory(id)
                     /\ op = "updateAge"
                        => /\ records'[id][1] =
                                [records[id][1] EXCEPT
                                    !.age = records'[id][1].age,
                                    !.isAlive = records'[id][1].isAlive]
                           /\ inventories' = inventories
                     /\ op = "updateInventory"
                        => records'[id][1] =
                              [records[id][1] EXCEPT
                                  !.inventory = records'[id][1].inventory] ]_vars

\* updateStats has just written the hunger of an animal that was moved and
\* given another inventory before, while a second animal is stored.
C21_Witness ==
    /\ lastUpdate = [op |-> "updateStats", id |-> "a1", present |-> TRUE]
    /\ records["a2"] # <<>>
    /\ records["a1"] # <<>>
    /\ records["a1"][1].stats = [InitialStats EXCEPT !.hunger = 0]
    /\ records["a1"][1].position # NewAnimal("a1", 1).position
    /\ records["a1"][1].inventory = CopiedInventoryOf("a1")
    /\ inventories[CopiedInventoryOf("a1")].items["berries"] = 1

\* C22: after any sequence of health checks and applied action results,
\* with any parameters a plan step may carry, every stat of every stored
\* record lies between 0 and 100.
C22_StatsInRange ==
    \A id \in StoreIds :
        records[id] # <<>> =>
            \A s \in StatNames : records[id][1].stats[s] \in 0..100

\* C23: a health check leaves every animal it processed in the store, and
\* marked not alive whenever its age has reached 1 or its health has
\* reached 0.
C23_DeadWhenSpent ==
    [][budget'.checks = budget.checks + 1 =>
          \A id \in StoreIds :
              records[id] # <<>> =>
                  /\ records'[id] # <<>>
                  /\ (\/ records'[id][1].age >= 100
                      \/ records'[id][1].stats.health <= 0)
                        => ~records'[id][1].isAlive]_vars

TypeCeiling(r) ==
    Max(InitialQuantity(r),
        RegenerationLimit(ResourceType(r)).below - 1
            + RegenerationLimit(ResourceType(r)).gain)

\* C25: every resource quantity is at least 0; a quantity falls only in a
\* step that harvests it, rises only in a regeneration pass, and never
\* rises beyond the ceiling of its type.
C25_OnlyHarvestAndRegeneration ==
    [][\A r \in ResourceIds :
          /\ resources'[r] >= 0
          /\ resources'[r] < resources[r] =>
                /\ lastResult'.n = lastResult.n + 1
                /\ lastResult'.action = "harvesting"
                /\ lastResult'.result.success
                /\ lastResult'.result.resourceId = r
          /\ resources'[r] > resources[r] =>
                /\ budget'.regens = budget.regens + 1
                /\ RegeneratesOverTime(r)
                /\ resources'[r] <= TypeCeiling(r)]_vars

\* The inventory holds no item of the type with a quantity above 0.
HoldsNone(inv, type) ==
    \A n \in ItemNames : ItemType(n) = type => inv.items[n] = 0

WeightOfItems(inv) ==
      inv.items["wood"] * UnitWeight(ItemType("wood"))
    + inv.items["stone"] * UnitWeight(ItemType("stone"))
    + inv.items["water"] * UnitWeight(ItemType("water"))
    + inv.items["berries"] * UnitWeight(ItemType("berries"))

\* C27: after any sequence of inventory operations (adding a harvested
\* item, consuming an item when eating or drinking, consuming building
\* materials) the currentWeight of every inventory equals the sum over its
\* items of quantity times the unit weight of the type.
C27_WeightIsSum ==
    \A id \in StoreIds :
        records[id] # <<>> =>
            inventories[records[id][1].inventory].currentWeight
                = WeightOfItems(inventories[records[id][1].inventory])

\* C28: when the handler of a step throws, executeAction returns the
\* failure result its catch block builds instead of throwing; the step is
\* completed as failed, and the records and the scheduled decisions of the
\* other animals are as they were, so that their decisions still run.
C28_ThrowBecomesFailure ==
    [][\A id \in StoreIds : \A step \in StepInputsOf(id) :
          (/\ step.action = "playing"
           /\ step.params.playmates = "null"
           /\ ExecuteAnimalAction(id, step)) =>
              /\ ~lastResult'.result.threw
              /\ lastResult'.result.caught
              /\ ~lastResult'.result.success
              /\ lastResult'.completed = "failed"
              /\ \A other \in StoreIds \ {id} :
                    /\ pending'[other] = pending[other]
                    /\ records'[other] = records[other]]_vars

\* The handler of the first animal has just thrown, and the decision of the
\* second animal, scheduled by the same health check, is still to run.
C28_Witness ==
    /\ lastResult.n > 0
    /\ lastResult.id = "a1"
    /\ lastResult.action = "playing"
    /\ lastResult.params.playmates = "null"
    /\ lastResult.result.caught
    /\ lastResult.completed = "failed"
    /\ budget.checks = 1
    /\ pending["a2"] # <<>>

\* C29: a step whose action is one of the twelve of the vocabulary runs
\* the handler of that action and of no other action of the vocabulary,
\* and only a name outside the vocabulary runs the idle handler in place
\* of its own.
C29_OwnHandler ==
    lastResult.n > 0 =>
        /\ lastResult.result.handler = HandlerOf(lastResult.action)
        /\ lastResult.action \in validActions =>
              \A other \in validActions \ {lastResult.action} :
                  HandlerOf(other) # lastResult.result.handler
        /\ lastResult.result.handler = "executeIdle" =>
              lastResult.action = "idle" \/ lastResult.action \notin validActions

\* C30: whenever the response of the oracle names an action outside the
\* vocabulary, at the top level or in a step of its plan, the action is
\* replaced by idle: the answer of the route names an action of the
\* vocabulary, no stored plan holds a name outside it, and no step runs
\* under such a name.
C30_UnknownBecomesIdle ==
    /\ lastDecision.n > 0 => lastDecision.action \in validActions
    /\ \A id \in StoreIds :
          \A i \in 1..Len(actionPlans[id].steps) :
              actionPlans[id].steps[i] \in validActions
    /\ lastResult.n > 0 => lastResult.action \in validActions

\* C31: every step of a plan stored from a response of the oracle has an id
\* no other step of the plan has, a priority in 1..10, a turnOffset that is
\* an integer of at least 0 and a reason, whatever the response left out,
\* mistyped or set out of range.
C31_NormalizedSteps ==
    \A i \in 1..Len(storedSteps) :
        /\ \A j \in 1..Len(storedSteps) : i # j => storedSteps[i].id # storedSteps[j].id
        /\ storedSteps[i].priority.kind = "number"
        /\ storedSteps[i].priority.num \in 1..10
        /\ storedSteps[i].turnOffset.kind = "number"
        /\ storedSteps[i].turnOffset.num >= 0
        /\ storedSteps[i].reason.kind = "string"

\* C32: from storePlan on the confidence of a stored plan lies within
\* [0.1, 1.0]; a completion of a step as succeeded never lowers it and a
\* completion as failed never raises it.
C32_ConfidenceInRange ==
    [][\A a \in Agents :
          /\ HasPlan(plans'[a]) =>
                plans'[a][1].confidence \in MIN_CONFIDENCE..MAX_CONFIDENCE
          /\ (/\ HasPlan(plans[a])
              /\ nCompleted'[a] = nCompleted[a] + 1
              /\ plans'[a] = CompleteCurrentStep(plans[a], TRUE, now)) =>
                plans'[a][1].confidence >= plans[a][1].confidence
          /\ (/\ HasPlan(plans[a])
              /\ nCompleted'[a] = nCompleted[a] + 1
              /\ plans'[a] = CompleteCurrentStep(plans[a], FALSE, now)) =>
                plans'[a][1].confidence <= plans[a][1].confidence]_vars

\* A water resource that holds something lies within the harvest radius of
\* the animal.
WaterInReach(animal) ==
    \E r \in ResourceIds :
        /\ ResourceType(r) = "water"
        /\ resources[r] > 0
        /\ Abs(ResourcePosition(r) - animal.position) <= HARVEST_RADIUS

\* C33: the fallback plan built for an animal whose thirst is above the
\* urgent threshold, whose inventory is empty and which has a water
\* resource within the harvest radius begins with a harvesting step, not
\* with drinking and not with exploring.
C33_FallbackHarvestsWater ==
    [][\A id \in StoreIds : \A response \in Responses :
          (/\ response.plan = <<>>
           /\ DecideActionCall(id, response)
           /\ Head(pending[id]).stats.thirst > URGENT_THIRST
           /\ inventories[Head(pending[id]).inventory].items
                  = [n \in ItemNames |-> 0]
           /\ WaterInReach(Head(pending[id]))) =>
              actionPlans'[id].steps[1] = "harvesting"]_vars

\* C34: the stats an action writes are those its handler computes from the
\* record the store holds when the action executes, so that what a health
\* check or another action changed since the callback was scheduled is
\* not overwritten from the older snapshot.
C34_NoLostStatUpdate ==
    [][\A id \in StoreIds : \A step \in StepInputsOf(id) :
          (/\ records[id] # <<>>
           /\ ExecuteAnimalAction(id, step)
           /\ lastResult'.result.success) =>
              LET current == records[id][1]
                  fresh   == executeAction(current, step.action, step.params,
                                           inventories[current.inventory], resources)
              IN  records'[id][1].stats = Merge(current.stats, fresh.statChanges)]_vars

\* C35: completeCurrentStep stamps a completion on, and moves the cursor
\* past, only the step that startStep marked started: a completion of the
\* pipeline never meets a plan whose step at the cursor carries no start
\* stamp, nor a plan whose cursor is past its last step.
C35_CompletesStartedStep ==
    [][ \A a \in Agents :
          ( HasPlan(plans[a]) /\ nCompleted'[a] = nCompleted[a] + 1 )
          => /\ Remaining(a)
             /\ Steps(a)[Cursor(a) + 1].startedAt # 0 ]_vars

\* C36: a decision callback that runs after its agent has been removed
\* executes nothing for it: it lowers no resource quantity, moves no plan
\* cursor and puts no record for the id back into the store.
C36_RemovedAgentActsNoMore ==
    [][ \A id \in StoreIds :
          ( /\ records[id] = <<>>
            /\ \/ RunPlanStep(id)
               \/ \E step \in HarvestSteps : ExecuteAnimalAction(id, step) )
          => /\ \A r \in ResourceIds : resources'[r] >= resources[r]
             /\ actionPlans'[id].cursor = actionPlans[id].cursor
             /\ records'[id] = <<>> ]_vars

\* C37: every change event reaches the subscribers once, and the events of
\* one agent reach them in the order of their mutations, whichever method
\* made them: an event a pass has delivered is queued no more, a pass hands
\* over the events of an agent in the order they were queued, and the event
\* of a setAnimal or removeAnimal is not handed over while an earlier event
\* of the same agent still waits in the queue.
C37_DeliveredOnceInOrder ==
    /\ [](\A i \in 1..Len(updateQueue) : updateQueue[i].n \notin deliveredEvents)
    /\ [](\A i, j \in 1..Len(lastFlush.batch) :
             ( i < j /\ lastFlush.batch[i].animalId = lastFlush.batch[j].animalId )
             => lastFlush.batch[i].n < lastFlush.batch[j].n)
    /\ [][ \A id \in StoreIds :
             ( /\ StoreSetAnimal(id) \/ StoreRemoveAnimal(id)
               /\ lastCall'.notified > 0 )
             => \A i \in 1..Len(updateQueue) : updateQueue[i].animalId # id ]_vars

\* C38: when no change event waits in the queue, the animal list of the game
\* manager holds one entry per stored agent and no other, and each entry is
\* the record the store holds for the agent.
C38_WorldListMirrorsStore ==
    syncQueue = <<>> =>
        /\ Len(worldAnimals) = Cardinality({id \in StoreIds : records[id] # <<>>})
        /\ \A id \in StoreIds :
              records[id] # <<>> =>
                 \E i \in 1..Len(worldAnimals) : worldAnimals[i] = records[id][1]

\* C39: the cursor of a stored plan lies between 0 and the number of its
\* steps, every step before the cursor carries a start and a completion
\* stamp, and no step after the cursor carries either.
C39_CursorSplitsSteps ==
    \A a \in Agents :
        HasPlan(plans[a])
        => /\ 0 <= Cursor(a)
           /\ Cursor(a) <= Len(Steps(a))
           /\ \A i \in 1..Len(Steps(a)) :
                 /\ i - 1 < Cursor(a)
                       => Steps(a)[i].startedAt # 0 /\ Steps(a)[i].completedAt # 0
                 /\ i - 1 > Cursor(a)
                       => Steps(a)[i].startedAt = 0 /\ Steps(a)[i].completedAt = 0

\* C40: for an agent whose stored record has isAlive false the pipeline
\* starts no plan step and issues no oracle call.
C40_DeadAgentsDoNotAct ==
    [][ \A id \in StoreIds :
          ( records[id] # <<>> /\ ~records[id][1].isAlive )
          => /\ ~RunPlanStep(id)
             /\ \A response \in Responses : ~DecideActionCall(id, response) ]_vars
====
